---- MODULE Spec2Model ----
(***************************************************************************)
(* A model of the turn-taking / streaming pipeline of ai_live2d:           *)
(*   voice/asr_client.py   ASRClient   (microphone, VAD link, recording)   *)
(*   core/event_bus.py     EventBus    (publish -> one task per handler)   *)
(*   core/app_manager.py   AppManager  (the coordinator's event handlers)  *)
(*   ai/llm_client.py, ai/context_processor.py  (the streamed LLM reply)   *)
(*   voice/tts_client.py   TTSClient   (segmentation, synthesis, playback) *)
(*                                                                         *)
(* All coroutines run on one asyncio loop: an action is the code a         *)
(* coroutine executes between two suspension points.  The sounddevice      *)
(* audio callback runs on its own thread and is split where the loop       *)
(* thread can interleave with it.                                          *)
(***************************************************************************)
EXTENDS Integers, Sequences, FiniteSets, TLC

(***************************************************************************)
(* Program constants.                                                      *)
(***************************************************************************)
sample_rate == 16000
block_size == 512
silence_threshold == 500
audio_queue_maxsize == 100

(***************************************************************************)
(* Bounds of the model.                                                    *)
(***************************************************************************)
\* how many times the model lets the microphone deliver audio
MaxCallbacks == 2
\* a long run of consecutive audio callbacks, in blocks (more than 120 s)
LongRun == 3800
\* a short run of consecutive audio callbacks, in blocks (about a quarter second)
ShortRun == 8
\* created-but-not-yet-started tasks the loop may hold when it turns to an
\* input, a reply of a service or a timer
MaxReady == 1
\* transcription requests the model lets the user's speech lead to
MaxRequests == 2
\* content tokens the model lets one LLM reply stream
MaxTokens == 2
\* typed or recognized texts the model lets reach the LLM
MaxTurns == 1
\* typed turns of the conversation whose replies are HelloStream
HelloTurns == 2
\* LLMClient.max_messages, the limit (llm.max_messages) the model is configured with
max_messages == 2
\* add_message calls the model lets a history see
MaxAdded == 6
\* tool-call fragments the model lets one LLM reply stream
MaxToolChunks == 2
\* auto_chat_request events the model lets the auto-chat module publish
MaxAuto == 2
\* callbacks subscribed to the event type the EventBus section follows
MaxSubscribers == 2
\* handler tasks the bus creates in a run
MaxHandlerTasks == 2
\* segments handed to the TTS client on its own
MaxEnqueued == 3
\* VAD connections opened, and connection attempts since the last success
MaxConnections == 3
MaxAttempts == 8

VARIABLES
    \* ---- ASRClient (voice/asr_client.py) ----
    asr_locked,             \* self.asr_locked
    is_processing_audio,    \* self.is_processing_audio
    is_recording,           \* self.is_recording
    continuous_buffer,      \* len(self.continuous_buffer), in samples
    recording_start_index,  \* self.recording_start_index
    silence_timeout_task,   \* self.silence_timeout_task: "none", or where the task is
    running_task,           \* a timeout task no longer referenced by the field
    since_speech,           \* now - self.last_speech_time, in ms, capped
    timer_left,             \* ms left of the timeout task's sleep
    audio_data_queue,       \* number of blocks in self.audio_data_queue
    cb_pc,                  \* the audio thread: "idle", or "put" after its lock check
    \* ---- history of the run (not program state) ----
    samples_received,       \* samples delivered by the microphone so far
    n_callbacks,            \* microphone deliveries so far (bounded by MaxCallbacks)
    preroll_abs,            \* absolute position of the pre-roll point of the run
    last_finish,            \* what the last finish_recording call did
    asr_requests,           \* transcription requests sent so far
    ignored,                \* an input found asr_locked set and was dropped
    \* ---- AppManager (core/app_manager.py) ----
    is_running,             \* self.is_running
    llm_streaming,          \* self.llm_streaming
    user_input_processing,  \* self.user_input_processing
    n_turns,                \* prompts handed to the LLM so far (history)
    \* ---- LLMClient and ContextProcessor (ai/) ----
    llm_request,            \* the send_message call: "none", "posting", "streaming"
    n_tokens,               \* content tokens streamed by the request so far
    buffer,                 \* ContextProcessor.buffer, a sequence of characters
    \* ---- TTSClient (voice/tts_client.py) ----
    text_segment_queue,     \* self.text_segment_queue, a sequence of segments
    tts_audio_data_queue,   \* self.audio_data_queue, the segments synthesized
    current_full_text,      \* self.current_full_text
    is_processing,          \* self.is_processing
    is_playing_audio,       \* self.is_playing_audio
    was_active,             \* self._was_active (False while the attribute is unset)
    processing_task,        \* _process_text_loop: "waiting" or "synth"
    segment,                \* the segment _process_text_loop is converting
    playback_task,          \* _playback_loop: "waiting", "playing" or "joining"
    text_animation_task,    \* self.text_animation_task: "none", or where the task is
    \* ---- history of the reply (not program state) ----
    streamed,               \* the content tokens of the reply, concatenated
    llm_failed,             \* the request of the turn ended in an error
    tts_failed,             \* a synthesis or a playback failed
    enqueued,               \* the segments put on text_segment_queue, in order
    \* ---- LLMClient history (ai/llm_client.py) ----
    messages,               \* self.messages: records of role, content and an identity
    added,                  \* history: every message add_message was called with
    \* ---- LLMClient tool calls (ai/llm_client.py) ----
    tool_args,              \* self.tool_args, the accumulated argument string
    usetool,                \* self.usetool (self.tool_name is set with it)
    tool_round,             \* 1 inside the send_message a tool round trip re-issues
    outer_response,         \* full_response of the request that called the tool
    tool_chunks,            \* history: the argument fragments of the reply
    tool_call,              \* history: the arguments call_tool was called with
    \* ---- AutoChatModule (ai/auto_chat.py) ----
    auto_chat,              \* AppManager.auto_chat is set: the module is enabled
    user_speaking,          \* self.user_speaking (None reads as False)
    tts_playing,            \* self.tts_playing
    llm_inputing,           \* self.llm_inputing
    idle_elapsed,           \* now - self.last_interaction_time >= self.idle_time
    n_auto,                 \* history: auto_chat_request events published
    \* ---- EventBus (core/event_bus.py) ----
    is_shutting_down,       \* self.is_shutting_down
    subscribers,            \* self.subscribers of one event type: callbacks in order
    in_subscribers,         \* the event type is a key of self.subscribers
    handler_tasks,          \* every task or inline call made for a callback, with its state
    tasks,                  \* self.tasks: the tracked tasks (indices of handler_tasks)
    shutdown_task,          \* the shutdown call: "none", "gathering", "returned", or
                            \* "in_handler": made by a handler task, at its gather
    cancel_tasks,           \* the tasks shutdown cancelled and gathers
    last_call,              \* history: how the last call made on the bus returned
    \* ---- start and stop of the components ----
    asr_stop,               \* ASRClient.stop: "none", "gathering", "closing", "returned"
    tts_enabled,            \* AppManager.tts_client is set: tts_enabled in the config
    \* ---- the VAD connection (voice/asr_client.py) ----
    websocket,              \* self.websocket: 0 for None, else the connection's number
    connections,            \* the connections opened and not closed
    n_connections,          \* history: the connections opened so far
    retry_count,            \* self.retry_count
    attempts,               \* history: calls of websockets.connect since the last success
    exhausted,              \* history: setup_websocket raised since the last success
    setup_pc,               \* per task, where it is on the way through setup_websocket
    \* ---- event loop ----
    ready                   \* tasks created and not yet started, in creation order

lock_vars == <<asr_locked, is_processing_audio>>
rec_vars == <<is_recording, recording_start_index, silence_timeout_task, running_task,
              timer_left, preroll_abs>>
mic_vars == <<continuous_buffer, audio_data_queue, cb_pc, samples_received, n_callbacks>>
asr_vars == <<lock_vars, rec_vars, mic_vars, since_speech, last_finish, asr_requests,
              ignored>>
app_vars == <<is_running, llm_streaming, user_input_processing, n_turns>>
llm_vars == <<llm_request, n_tokens, buffer, streamed, llm_failed>>
text_vars == <<text_segment_queue, current_full_text, enqueued>>
play_vars == <<tts_audio_data_queue, is_processing, is_playing_audio, processing_task,
               segment, playback_task, text_animation_task, tts_failed>>
tts_vars == <<text_vars, play_vars, was_active>>
hist_vars == <<messages, added>>
tool_vars == <<tool_args, usetool, tool_round, outer_response, tool_chunks, tool_call>>
auto_state == <<user_speaking, tts_playing, llm_inputing, idle_elapsed>>
auto_vars == <<auto_chat, n_auto, auto_state>>
bus_vars == <<is_shutting_down, subscribers, in_subscribers, handler_tasks, tasks,
              shutdown_task, cancel_tasks, last_call>>
conn_vars == <<websocket, connections, n_connections, retry_count, attempts, exhausted,
               setup_pc>>
life_vars == <<asr_stop, tts_enabled, conn_vars>>
ext_vars == <<hist_vars, tool_vars, auto_vars, bus_vars, life_vars>>
sys_vars == <<app_vars, llm_vars, tts_vars, ext_vars>>
vars == <<asr_vars, sys_vars, ready>>

Min(a, b) == IF a < b THEN a ELSE b
Max(a, b) == IF a > b THEN a ELSE b

(***************************************************************************)
(* Time.  The clock advances in steps of half the silence threshold; the   *)
(* program reads it only through now - last_speech_time >= threshold and   *)
(* through asyncio.sleep(threshold).                                       *)
(***************************************************************************)
TickMs == silence_threshold \div 2
SinceCap == 2 * silence_threshold

(***************************************************************************)
(* EventBus.publish: one task per subscribed handler, in subscription      *)
(* order.  AppManager subscribes one handler to each event it handles.     *)
(***************************************************************************)
HandlerTask(type, data, text) ==
    [task |-> "handle", type |-> type, data |-> data, text |-> text]
\* a task created to call publish later
PublishTask(type, data) ==
    [task |-> "publish", type |-> type, data |-> data, text |-> <<>>]
\* the task of TTSClient._text_animation_task
AnimationTask == [task |-> "animation", type |-> "", data |-> FALSE, text |-> <<>>]
Publish(q, type, data) == Append(q, HandlerTask(type, data, <<>>))
PublishText(q, type, data, text) == Append(q, HandlerTask(type, data, text))

(***************************************************************************)
(* ASRClient.audio_callback: the buffer keeps the last max_buffer_size     *)
(* samples and appends the block.                                          *)
(***************************************************************************)
MaxBufferSize(rec) == IF rec THEN sample_rate * 120 ELSE sample_rate * 3

CallbackBuffer(len, rec) ==
    IF len = 0 THEN block_size ELSE Min(len, MaxBufferSize(rec)) + block_size

\* k >= 1 consecutive callbacks with is_recording unchanged: the length grows
\* by one block per callback until a callback finds it above the maximum
RunBufferFrom(len, rec, k) ==
    IF k = 0 THEN len
    ELSE IF len + block_size * (k - 1) <= MaxBufferSize(rec)
         THEN len + block_size * k
         ELSE MaxBufferSize(rec) + block_size

RunBuffer(len, rec, k) ==
    IF len = 0 THEN RunBufferFrom(block_size, rec, k - 1)
    ELSE RunBufferFrom(len, rec, k)

\* put_nowait, and on QueueFull get_nowait then put_nowait
QueuePut(q) == IF q < audio_queue_maxsize THEN q + 1 ELSE (q - 1) + 1

\* a faulty callback that does not test asr_locked
CallbackEnqueuesUnlessPaused == ~is_processing_audio
CallbackEnqueues == ~is_processing_audio /\ ~asr_locked

\* The callback up to and including its test of the flags (lines 111-135).
AudioCallbackBegin ==
    /\ cb_pc = "idle"
    /\ n_callbacks < MaxCallbacks
    /\ n_callbacks' = n_callbacks + 1
    /\ samples_received' = samples_received + block_size
    /\ continuous_buffer' = CallbackBuffer(continuous_buffer, is_recording)
    /\ cb_pc' = IF CallbackEnqueues THEN "put" ELSE "idle"
    /\ ignored' = (ignored \/ ~CallbackEnqueues)
    /\ UNCHANGED <<lock_vars, rec_vars, audio_data_queue, since_speech, last_finish,
                   asr_requests, ready>>
    /\ UNCHANGED sys_vars

\* The callback's put_nowait (lines 136-145).
AudioCallbackPut ==
    /\ cb_pc = "put"
    /\ audio_data_queue' = QueuePut(audio_data_queue)
    /\ cb_pc' = "idle"
    /\ UNCHANGED <<lock_vars, rec_vars, continuous_buffer, samples_received, n_callbacks,
                   since_speech, last_finish, asr_requests, ignored, ready>>
    /\ UNCHANGED sys_vars

\* k whole callbacks in a row, audio_processor_task taking each block they put.
AudioCallbackRun(k) ==
    /\ cb_pc = "idle"
    /\ n_callbacks < MaxCallbacks
    /\ n_callbacks' = n_callbacks + 1
    /\ samples_received' = samples_received + k * block_size
    /\ continuous_buffer' = RunBuffer(continuous_buffer, is_recording, k)
    /\ ignored' = (ignored \/ ~CallbackEnqueues)
    /\ UNCHANGED <<lock_vars, rec_vars, audio_data_queue, cb_pc, since_speech,
                   last_finish, asr_requests, ready>>
    /\ UNCHANGED sys_vars

(***************************************************************************)
(* The callback's try block statement by statement.  The callback runs in  *)
(* the audio thread: audio_processor_task, in the thread of the event      *)
(* loop, may take blocks off the queue between any two of its statements.  *)
(***************************************************************************)
\* put_nowait: the block joins the queue, or QueueFull is raised
AudioCallbackPutNowait ==
    /\ cb_pc = "put"
    /\ IF audio_data_queue < audio_queue_maxsize
       THEN audio_data_queue' = audio_data_queue + 1 /\ cb_pc' = "idle"
       ELSE audio_data_queue' = audio_data_queue /\ cb_pc' = "full"
    /\ UNCHANGED <<lock_vars, rec_vars, continuous_buffer, samples_received, n_callbacks,
                   since_speech, last_finish, asr_requests, ignored, ready>>
    /\ UNCHANGED sys_vars

\* the except clause: get_nowait drops the oldest block and put_nowait adds
\* the new one, or get_nowait raises QueueEmpty and the callback passes
AudioCallbackDropOldest ==
    /\ cb_pc = "full"
    /\ audio_data_queue' = IF audio_data_queue > 0 THEN (audio_data_queue - 1) + 1 ELSE 0
    /\ cb_pc' = "idle"
    /\ UNCHANGED <<lock_vars, rec_vars, continuous_buffer, samples_received, n_callbacks,
                   since_speech, last_finish, asr_requests, ignored, ready>>
    /\ UNCHANGED sys_vars

\* k whole callbacks in a row while audio_processor_task is suspended in
\* websocket.send or in a reconnection: each puts its block, the queue full
\* each drops the oldest one
AudioCallbackBacklog(k) ==
    /\ cb_pc = "idle"
    /\ n_callbacks < MaxCallbacks
    /\ CallbackEnqueues
    /\ n_callbacks' = n_callbacks + 1
    /\ samples_received' = samples_received + k * block_size
    /\ continuous_buffer' = RunBuffer(continuous_buffer, is_recording, k)
    /\ audio_data_queue' = Min(audio_queue_maxsize, audio_data_queue + k)
    /\ UNCHANGED <<lock_vars, rec_vars, cb_pc, since_speech, last_finish, asr_requests,
                   ignored, ready>>
    /\ UNCHANGED sys_vars

(***************************************************************************)
(* ASRClient.audio_processor_task: one round of the loop takes blocks off  *)
(* the queue (one when 50 ms have passed since the last batch, else up to  *)
(* 0.1 s of audio) and sends the batch unless the ASR is locked.           *)
(***************************************************************************)
BatchBlocks == (sample_rate \div 10 + block_size - 1) \div block_size

AudioProcessorTask(n) ==
    /\ audio_data_queue > 0
    /\ audio_data_queue' = audio_data_queue - Min(n, audio_data_queue)
    /\ UNCHANGED <<lock_vars, rec_vars, continuous_buffer, cb_pc, samples_received,
                   n_callbacks, since_speech, last_finish, asr_requests, ignored, ready>>
    /\ UNCHANGED sys_vars

(***************************************************************************)
(* ASRClient._unlock_asr, _cleanup_audio_buffer, _remove_silence.          *)
(***************************************************************************)
\* _unlock_asr creates a task that publishes user_speaking(False)
UnlockAsrTasks(q) == Append(q, PublishTask("user_speaking", FALSE))

CleanupAudioBuffer(len) == IF len > sample_rate * 1 THEN sample_rate * 1 ELSE len

PreRecordSamples == (sample_rate * 7) \div 10
SilenceMargin == sample_rate \div 10

\* where the samples above the energy threshold lie in a recording of len
\* samples: nowhere, or from a first to a last position
LoudProfiles(len) ==
    {<<-1, -1>>} \cup
    (IF len = 0 THEN {} ELSE {<<0, 0>>, <<0, len - 1>>, <<len - 1, len - 1>>})

\* length of audio_data[start_idx:end_idx]
RemoveSilence(len, loud) ==
    LET start_idx == IF loud[1] < 0 THEN 0 ELSE Max(0, loud[1] - SilenceMargin)
        end_idx == IF loud[2] < 0 THEN len ELSE Min(len, loud[2] + SilenceMargin)
    IN  Max(0, end_idx - start_idx)

\* len(recorded_samples) > self.sample_rate * 0.3, and * 0.2 after trimming
\* a faulty check that lets 0.2 s of raw audio through
LongEnoughRawFifth(len) == len * 10 > sample_rate * 2
LongEnoughRaw(len) == len * 10 > sample_rate * 3
LongEnoughProcessed(len) == len * 10 > sample_rate * 2

(***************************************************************************)
(* ASRClient.handle_speech and handle_silence, called by                   *)
(* websocket_listener for one VAD message.                                 *)
(***************************************************************************)
HandleSpeechGuard == ~(is_processing_audio \/ asr_locked)

HandleSpeech ==
    /\ HandleSpeechGuard
    /\ ready' = Publish(ready, "user_speaking", TRUE)
    /\ since_speech' = 0
    \* cancel the silence timeout: a sleeping task ends at once, a task inside
    \* process_recording runs its finally blocks when the loop resumes it
    /\ silence_timeout_task' = "none"
    /\ timer_left' = 0
    /\ running_task' = IF silence_timeout_task \in {"http", "closing"}
                       THEN "cancelled" ELSE running_task
    /\ IF ~is_recording
       THEN /\ is_recording' = TRUE
            /\ recording_start_index' = Max(0, continuous_buffer - PreRecordSamples)
            /\ preroll_abs' = (samples_received - continuous_buffer)
                              + Max(0, continuous_buffer - PreRecordSamples)
       ELSE UNCHANGED <<is_recording, recording_start_index, preroll_abs>>
    /\ UNCHANGED <<lock_vars, mic_vars, last_finish, asr_requests, ignored>>
    /\ UNCHANGED sys_vars

StartsTimeout == silence_timeout_task = "none" /\ since_speech >= silence_threshold

HandleSilence ==
    /\ ~(is_processing_audio \/ asr_locked)
    /\ IF is_recording
       THEN /\ IF StartsTimeout
               THEN silence_timeout_task' = "sleep" /\ timer_left' = silence_threshold
               ELSE UNCHANGED <<silence_timeout_task, timer_left>>
            /\ UNCHANGED ready
       ELSE /\ ready' = Publish(ready, "user_speaking", FALSE)
            /\ UNCHANGED <<silence_timeout_task, timer_left>>
    /\ UNCHANGED <<lock_vars, is_recording, recording_start_index, running_task,
                   preroll_abs, mic_vars, since_speech, last_finish, asr_requests, ignored>>
    /\ UNCHANGED sys_vars

\* websocket_listener: one message {"is_speech": b} received from the VAD service
ListenerIgnores == is_processing_audio \/ asr_locked

WebsocketListener(is_speaking) ==
    /\ Len(ready) < MaxReady
    /\ (is_speaking /\ ~is_recording) => asr_requests < MaxRequests
    /\ IF ListenerIgnores
       THEN /\ ignored' = TRUE
            /\ UNCHANGED <<lock_vars, rec_vars, mic_vars, since_speech, last_finish,
                           asr_requests, sys_vars, ready>>
       ELSE IF is_speaking THEN HandleSpeech ELSE HandleSilence

(***************************************************************************)
(* The clock.  Tasks that are ready to run and a cancelled task run before *)
(* a quarter of a second passes.                                           *)
(***************************************************************************)
Tick ==
    /\ ready = <<>>
    /\ running_task = "none"
    /\ cb_pc = "idle"
    /\ since_speech < SinceCap \/ (silence_timeout_task = "sleep" /\ timer_left > 0)
    /\ since_speech' = Min(since_speech + TickMs, SinceCap)
    /\ timer_left' = IF silence_timeout_task = "sleep"
                     THEN Max(0, timer_left - TickMs) ELSE timer_left
    /\ UNCHANGED <<lock_vars, is_recording, recording_start_index, silence_timeout_task,
                   running_task, preroll_abs, mic_vars, last_finish, asr_requests,
                   ignored, ready>>
    /\ UNCHANGED sys_vars

(***************************************************************************)
(* ASRClient.silence_timeout_handler after its sleep: finish_recording up  *)
(* to the request of process_recording, or to its end when the recording   *)
(* is discarded.                                                           *)
(***************************************************************************)
FinishGuard == ~(~is_recording \/ is_processing_audio \/ asr_locked)

ActualStartIndex == Max(0, Min(recording_start_index, continuous_buffer - 1))

RecordedSamples == continuous_buffer - ActualStartIndex

Finished(outcome) ==
    [outcome |-> outcome,
     raw |-> RecordedSamples,
     abs_start |-> (samples_received - continuous_buffer) + ActualStartIndex,
     abs_end |-> samples_received,
     preroll |-> preroll_abs,
     since |-> since_speech]

FinishRecording(loud) ==
    IF ~FinishGuard
    THEN \* the early return; silence_timeout_handler's finally clears the field
         /\ silence_timeout_task' = "none"
         /\ UNCHANGED <<lock_vars, is_recording, recording_start_index, running_task,
                        timer_left, preroll_abs, mic_vars, since_speech, last_finish,
                        asr_requests, ignored, ready>>
    ELSE /\ is_recording' = FALSE
         /\ IF LongEnoughRaw(RecordedSamples)
               /\ LongEnoughProcessed(RemoveSilence(RecordedSamples, loud))
            THEN \* await self.process_recording(wav_blob): the POST is sent
                 /\ asr_locked' = TRUE
                 /\ silence_timeout_task' = "http"
                 /\ asr_requests' = asr_requests + 1
                 /\ last_finish' = Finished("sent")
                 /\ UNCHANGED <<continuous_buffer, ready>>
            ELSE \* discarded: _unlock_asr, then finally _cleanup_audio_buffer
                 /\ asr_locked' = FALSE
                 /\ silence_timeout_task' = "none"
                 /\ ready' = UnlockAsrTasks(ready)
                 /\ continuous_buffer' = CleanupAudioBuffer(continuous_buffer)
                 /\ last_finish' = Finished(IF LongEnoughRaw(RecordedSamples)
                                            THEN "short_processed" ELSE "short_raw")
                 /\ UNCHANGED asr_requests
         /\ UNCHANGED <<is_processing_audio, recording_start_index, running_task, ignored,
                        timer_left, preroll_abs, audio_data_queue, cb_pc,
                        samples_received, n_callbacks, since_speech>>

SilenceTimeoutHandler ==
    /\ silence_timeout_task = "sleep"
    /\ timer_left = 0
    /\ \E loud \in LoudProfiles(RecordedSamples) : FinishRecording(loud)
    /\ UNCHANGED sys_vars

(***************************************************************************)
(* ASRClient.process_recording.  The reply of the transcription service:   *)
(*   "success"   200, status success, a text                               *)
(*   "rejected"  200, another status or no text                            *)
(*   "http"      a status other than 200                                   *)
(*   "raised"    the request raised (connection error, timeout)            *)
(* After a reply the coroutine leaves its async with blocks, which may     *)
(* suspend it, and then runs its finally block.                            *)
(***************************************************************************)
AsrReplies == {"success", "rejected", "http", "raised"}

\* the finally blocks of process_recording and finish_recording, and of
\* silence_timeout_handler when it still is the task of the field
\* faulty finally blocks that leave asr_locked as it is
ProcessRecordingFinallyKeepsLock(q) ==
    /\ asr_locked' = asr_locked
    /\ ready' = UnlockAsrTasks(q)
    /\ audio_data_queue' = 0
    /\ continuous_buffer' = CleanupAudioBuffer(continuous_buffer)
ProcessRecordingFinally(q) ==
    /\ asr_locked' = FALSE
    /\ ready' = UnlockAsrTasks(q)
    /\ audio_data_queue' = 0
    /\ continuous_buffer' = CleanupAudioBuffer(continuous_buffer)

ProcessRecordingReply(reply) ==
    /\ silence_timeout_task = "http"
    /\ Len(ready) < MaxReady
    \* the model follows one LLM request at a time
    /\ reply = "success" => (llm_request = "none" /\ n_turns < MaxTurns)
    /\ IF reply = "raised"
       THEN /\ ProcessRecordingFinally(ready)
            /\ silence_timeout_task' = "none"
       ELSE /\ silence_timeout_task' = "closing"
            /\ ready' = IF reply = "success"
                        THEN Publish(ready, "speech_recognized", TRUE)
                        ELSE ready
            /\ UNCHANGED <<asr_locked, audio_data_queue, continuous_buffer>>
    /\ last_finish' = [last_finish EXCEPT !.outcome = reply]
    /\ n_turns' = IF reply = "success" THEN n_turns + 1 ELSE n_turns
    /\ UNCHANGED <<is_processing_audio, is_recording, recording_start_index,
                   running_task, timer_left, preroll_abs, cb_pc, samples_received,
                   n_callbacks, since_speech, asr_requests, ignored>>
    /\ UNCHANGED <<is_running, llm_streaming, user_input_processing, llm_vars, tts_vars>>
    /\ UNCHANGED ext_vars

ProcessRecordingReturn ==
    /\ silence_timeout_task = "closing"
    /\ ProcessRecordingFinally(ready)
    /\ silence_timeout_task' = "none"
    /\ UNCHANGED <<is_processing_audio, is_recording, recording_start_index,
                   running_task, timer_left, preroll_abs, cb_pc, samples_received,
                   n_callbacks, since_speech, last_finish, asr_requests, ignored>>
    /\ UNCHANGED sys_vars

\* a timeout task cancelled by handle_speech inside process_recording: the
\* CancelledError runs the same finally blocks, the last of which clears the
\* field whatever it holds by then
CancelledTaskFinally ==
    /\ running_task = "cancelled"
    /\ ProcessRecordingFinally(ready)
    /\ running_task' = "none"
    /\ silence_timeout_task' = "none"
    /\ timer_left' = 0
    /\ UNCHANGED <<is_processing_audio, is_recording, recording_start_index,
                   preroll_abs, cb_pc, samples_received, n_callbacks, since_speech,
                   last_finish, asr_requests, ignored>>
    /\ UNCHANGED sys_vars

(***************************************************************************)
(* The VAD connection.  websocket_listener and audio_processor_task share  *)
(* self.websocket and self.retry_count; each calls setup_websocket when    *)
(* its own receive or send fails.  A task in setup_websocket is suspended  *)
(* in websockets.connect ("connect"), in the sleep after a connection      *)
(* ("settle") or in the sleep before a retry ("backoff"); the listener     *)
(* also sleeps after ConnectionClosed ("sleep_closed") and after a failed  *)
(* setup ("sleep_failed").                                                 *)
(***************************************************************************)
max_retries == 5

Callers == {"listener", "processor"}

\* the try block of setup_websocket up to the await of websockets.connect:
\* the connection self.websocket refers to is closed
SetupWebsocketCall(c) ==
    /\ connections' = connections \ {websocket}
    /\ setup_pc' = [setup_pc EXCEPT ![c] = "connect"]
    /\ UNCHANGED <<websocket, n_connections, retry_count, attempts, exhausted>>

\* the VAD service closes the connection, or the network drops it
ConnectionLost ==
    /\ websocket \in connections
    /\ connections' = connections \ {websocket}
    /\ UNCHANGED <<websocket, n_connections, retry_count, attempts, exhausted, setup_pc>>
    /\ UNCHANGED <<asr_vars, app_vars, llm_vars, tts_vars, hist_vars, tool_vars, auto_vars,
                   bus_vars, asr_stop, tts_enabled, ready>>

\* websocket_listener at the top of its loop with self.websocket None
ListenerConnects ==
    /\ setup_pc["listener"] = "idle"
    /\ websocket = 0
    /\ SetupWebsocketCall("listener")
    /\ UNCHANGED <<asr_vars, app_vars, llm_vars, tts_vars, hist_vars, tool_vars, auto_vars,
                   bus_vars, asr_stop, tts_enabled, ready>>

\* recv raises ConnectionClosed: the listener sleeps one second
ListenerRecvClosed ==
    /\ setup_pc["listener"] = "idle"
    /\ websocket # 0
    /\ websocket \notin connections
    /\ setup_pc' = [setup_pc EXCEPT !["listener"] = "sleep_closed"]
    /\ UNCHANGED <<websocket, connections, n_connections, retry_count, attempts, exhausted>>
    /\ UNCHANGED <<asr_vars, app_vars, llm_vars, tts_vars, hist_vars, tool_vars, auto_vars,
                   bus_vars, asr_stop, tts_enabled, ready>>

\* the sleep is over: the listener calls setup_websocket
ListenerReconnects ==
    /\ setup_pc["listener"] = "sleep_closed"
    /\ SetupWebsocketCall("listener")
    /\ UNCHANGED <<asr_vars, app_vars, llm_vars, tts_vars, hist_vars, tool_vars, auto_vars,
                   bus_vars, asr_stop, tts_enabled, ready>>

\* the sleep after a setup_websocket that raised is over: the loop goes on
ListenerLoops ==
    /\ setup_pc["listener"] = "sleep_failed"
    /\ setup_pc' = [setup_pc EXCEPT !["listener"] = "idle"]
    /\ UNCHANGED <<websocket, connections, n_connections, retry_count, attempts, exhausted>>
    /\ UNCHANGED <<asr_vars, app_vars, llm_vars, tts_vars, hist_vars, tool_vars, auto_vars,
                   bus_vars, asr_stop, tts_enabled, ready>>

\* audio_processor_task takes n blocks off the queue, websocket.send raises
\* and the task calls setup_websocket
ProcessorSendFails(n) ==
    /\ setup_pc["processor"] = "idle"
    /\ audio_data_queue > 0
    /\ websocket # 0
    /\ websocket \notin connections
    /\ ~is_processing_audio
    /\ ~asr_locked
    /\ audio_data_queue' = audio_data_queue - Min(n, audio_data_queue)
    /\ SetupWebsocketCall("processor")
    /\ UNCHANGED <<lock_vars, rec_vars, continuous_buffer, cb_pc, samples_received,
                   n_callbacks, since_speech, last_finish, asr_requests, ignored, ready>>
    /\ UNCHANGED <<app_vars, llm_vars, tts_vars, hist_vars, tool_vars, auto_vars,
                   bus_vars, asr_stop, tts_enabled>>

\* websockets.connect returns a new connection, assigned to self.websocket
SetupConnected(c) ==
    /\ setup_pc[c] = "connect"
    /\ n_connections < MaxConnections
    /\ n_connections' = n_connections + 1
    /\ connections' = connections \cup {n_connections + 1}
    /\ websocket' = n_connections + 1
    /\ attempts' = 0
    /\ exhausted' = FALSE
    /\ setup_pc' = [setup_pc EXCEPT ![c] = "settle"]
    /\ UNCHANGED retry_count
    /\ UNCHANGED <<asr_vars, app_vars, llm_vars, tts_vars, hist_vars, tool_vars, auto_vars,
                   bus_vars, asr_stop, tts_enabled, ready>>

\* the 0.2 s sleep is over: retry_count is reset and self.websocket returned
SetupReturns(c) ==
    /\ setup_pc[c] = "settle"
    /\ retry_count' = 0
    /\ setup_pc' = [setup_pc EXCEPT ![c] = "idle"]
    /\ UNCHANGED <<websocket, connections, n_connections, attempts, exhausted>>
    /\ UNCHANGED <<asr_vars, app_vars, llm_vars, tts_vars, hist_vars, tool_vars, auto_vars,
                   bus_vars, asr_stop, tts_enabled, ready>>

\* websockets.connect raises: a retry after one second while retry_count is
\* below max_retries, else the exception goes to the caller, which logs it
SetupConnectFails(c) ==
    /\ setup_pc[c] = "connect"
    /\ attempts < MaxAttempts
    /\ attempts' = attempts + 1
    /\ IF retry_count < max_retries
       THEN /\ retry_count' = retry_count + 1
            /\ setup_pc' = [setup_pc EXCEPT ![c] = "backoff"]
            /\ UNCHANGED exhausted
       ELSE /\ exhausted' = TRUE
            /\ setup_pc' = [setup_pc EXCEPT ![c] = IF c = "listener" THEN "sleep_failed"
                                                   ELSE "idle"]
            /\ UNCHANGED retry_count
    /\ UNCHANGED <<websocket, connections, n_connections>>
    /\ UNCHANGED <<asr_vars, app_vars, llm_vars, tts_vars, hist_vars, tool_vars, auto_vars,
                   bus_vars, asr_stop, tts_enabled, ready>>

\* the one second is over: setup_websocket calls itself
SetupRetries(c) ==
    /\ setup_pc[c] = "backoff"
    /\ SetupWebsocketCall(c)
    /\ UNCHANGED <<asr_vars, app_vars, llm_vars, tts_vars, hist_vars, tool_vars, auto_vars,
                   bus_vars, asr_stop, tts_enabled, ready>>

(***************************************************************************)
(* ASRClient.stop.  It stops the audio stream, cancels the tasks of        *)
(* self.tasks and gathers them, cancels the silence timeout task without   *)
(* awaiting it, closes the websocket and empties the queue.                *)
(***************************************************************************)
\* up to the gather: no callback comes after audio_stream.stop()
AsrStopBegin ==
    /\ asr_stop = "none"
    /\ cb_pc = "idle"
    /\ asr_stop' = "gathering"
    /\ UNCHANGED <<asr_vars, app_vars, llm_vars, tts_vars, hist_vars, tool_vars, auto_vars,
                   bus_vars, tts_enabled, conn_vars, ready>>

\* the gather returns, a task cancelled earlier has run by then; the silence
\* timeout task is cancelled: cancel() returns at once, the task runs its
\* except and finally clauses when the loop resumes it.  Then stop awaits
\* websocket.close()
AsrStopGathered ==
    /\ asr_stop = "gathering"
    /\ running_task = "none"
    /\ running_task' = IF silence_timeout_task = "none" THEN "none"
                       ELSE IF silence_timeout_task = "sleep" THEN "cancelled_sleep"
                       ELSE "cancelled"
    /\ silence_timeout_task' = "none"
    /\ timer_left' = 0
    /\ asr_stop' = "closing"
    /\ setup_pc' = [c \in Callers |-> "idle"]
    /\ UNCHANGED <<lock_vars, is_recording, recording_start_index, preroll_abs, mic_vars,
                   since_speech, last_finish, asr_requests, ignored>>
    /\ UNCHANGED <<websocket, connections, n_connections, retry_count, attempts, exhausted>>
    /\ UNCHANGED <<app_vars, llm_vars, tts_vars, hist_vars, tool_vars, auto_vars,
                   bus_vars, tts_enabled, ready>>

\* a task cancelled in its sleep: the except clause, then the finally clause
\* of silence_timeout_handler
CancelledSleepFinally ==
    /\ running_task = "cancelled_sleep"
    /\ running_task' = "none"
    /\ silence_timeout_task' = "none"
    /\ UNCHANGED <<lock_vars, is_recording, recording_start_index, timer_left,
                   preroll_abs, mic_vars, since_speech, last_finish, asr_requests, ignored>>
    /\ UNCHANGED <<sys_vars, ready>>

\* the websocket is closed: the queue is emptied and stop returns.  The task
\* cancelled in its sleep was resumed before the close could finish; a task
\* cancelled inside process_recording leaves its HTTP session on its own time
AsrStopReturn ==
    /\ asr_stop = "closing"
    /\ running_task # "cancelled_sleep"
    /\ audio_data_queue' = 0
    /\ is_recording' = FALSE
    /\ asr_stop' = "returned"
    /\ connections' = connections \ {websocket}
    /\ websocket' = 0
    /\ UNCHANGED <<lock_vars, recording_start_index, silence_timeout_task, running_task,
                   timer_left, preroll_abs, continuous_buffer, cb_pc, samples_received,
                   n_callbacks, since_speech, last_finish, asr_requests, ignored>>
    /\ UNCHANGED <<n_connections, retry_count, attempts, exhausted, setup_pc>>
    /\ UNCHANGED <<app_vars, llm_vars, tts_vars, hist_vars, tool_vars, auto_vars,
                   bus_vars, tts_enabled, ready>>

(***************************************************************************)
(* Text.  A text is a sequence of one-character strings.  The model's      *)
(* alphabet has a letter, a punctuation mark of both punctuation sets, a   *)
(* mark only TTSClient.punctuations holds, a blank and a newline; the      *)
(* full-width marks of the two sets behave as their ASCII forms.           *)
(***************************************************************************)
\* TTSClient.punctuations
punctuations == {".", "!", "?", ",", ";", ":", "~"}

\* the marks ContextProcessor.handle_llm_output looks for
context_punctuations == {".", "!", "?", ",", ";", "~"}
\* what str.strip() removes
Whitespace == {" ", "\n"}

\* not text.strip()
IsBlank(text) == \A i \in 1..Len(text) : text[i] \in Whitespace

\* text.replace('\n', '')
RemoveNewlines(text) == SelectSeq(text, LAMBDA c : c # "\n")

ContainsAny(text, marks) == \E i \in 1..Len(text) : text[i] \in marks

RECURSIVE Concat(_)
Concat(texts) == IF texts = <<>> THEN <<>> ELSE Head(texts) \o Concat(Tail(texts))

\* TTSClient._segment_text: one round of the loop over the characters
SegmentChar(st, char) ==
    LET current == Append(st.current_segment, char)
        cut == char \notin punctuations /\ ~IsBlank(current)
    IN  IF cut /\ st.ready_to_cut
        THEN [segments |-> Append(st.segments, st.current_segment),
              current_segment |-> <<char>>,
              ready_to_cut |-> char \in punctuations]
        ELSE [segments |-> st.segments,
              current_segment |-> current,
              ready_to_cut |-> char \in punctuations]

RECURSIVE SegmentLoop(_, _, _)
SegmentLoop(text, i, st) ==
    IF i > Len(text) THEN st ELSE SegmentLoop(text, i + 1, SegmentChar(st, text[i]))

SegmentText(text) ==
    LET st == SegmentLoop(text, 1, [segments |-> <<>>, current_segment |-> <<>>,
                                    ready_to_cut |-> FALSE])
    IN  IF ~IsBlank(st.current_segment)
        THEN Append(st.segments, st.current_segment)
        ELSE st.segments

(***************************************************************************)
(* The event loop runs the tasks in the order they were created.           *)
(***************************************************************************)
asr_rest == <<is_processing_audio, rec_vars, mic_vars, since_speech, last_finish,
              asr_requests, ignored>>

HeadIs(task, type) ==
    /\ ready # <<>>
    /\ Head(ready).task = task
    /\ Head(ready).type = type

\* a task created to publish an event later: EventBus.publish
RunPublishTask ==
    /\ ready # <<>>
    /\ Head(ready).task = "publish"
    /\ ready' = Publish(Tail(ready), Head(ready).type, Head(ready).data)
    /\ UNCHANGED <<asr_vars, sys_vars>>

(***************************************************************************)
(* TTSClient.is_active and reset, AppManager._check_and_update_asr_status. *)
(***************************************************************************)
HasAnimationTask == text_animation_task \notin {"none", "done"}

IsActive ==
    \/ text_segment_queue # <<>>
    \/ tts_audio_data_queue # <<>>
    \/ HasAnimationTask
    \/ is_processing
    \/ is_playing_audio

\* q is the ready queue the caller leaves behind; without a TTS client the
\* function does nothing
CheckAndUpdateAsrStatus(q) ==
    IF tts_enabled
    THEN /\ ready' = IF ~IsActive /\ was_active THEN Publish(q, "tts_end", FALSE) ELSE q
         /\ was_active' = IsActive
         /\ asr_locked' = IF IsActive /\ is_playing_audio THEN TRUE
                          ELSE IF ~IsActive /\ ~is_playing_audio THEN FALSE
                          ELSE asr_locked
         /\ IF ~IsActive
            THEN \* TTSClient.reset
                 /\ current_full_text' = <<>>
                 /\ text_segment_queue' = <<>>
                 /\ tts_audio_data_queue' = <<>>
            ELSE UNCHANGED <<current_full_text, text_segment_queue, tts_audio_data_queue>>
    ELSE /\ ready' = q
         /\ UNCHANGED <<was_active, asr_locked, current_full_text, text_segment_queue,
                        tts_audio_data_queue>>

\* what a handler does to the auto-chat module, if there is one:
\* update_last_interaction_time, then update_state
AutoChatUpdate(speaking, playing, inputing) ==
    /\ IF auto_chat
       THEN /\ idle_elapsed' = FALSE
            /\ user_speaking' = speaking
            /\ tts_playing' = playing
            /\ llm_inputing' = inputing
       ELSE UNCHANGED auto_state
    /\ UNCHANGED <<auto_chat, n_auto>>

\* AppManager.start: the modules are constructed and started, the handlers
\* subscribed
AppStart ==
    /\ ~is_running
    /\ is_running' = TRUE
    /\ CheckAndUpdateAsrStatus(ready)
    /\ UNCHANGED <<asr_rest, llm_streaming, user_input_processing, n_turns, llm_vars,
                   enqueued, is_processing, is_playing_audio, processing_task, segment,
                   playback_task, text_animation_task, tts_failed>>
    /\ UNCHANGED ext_vars

(***************************************************************************)
(* AppManager's handlers of the ASR events.                                *)
(***************************************************************************)
OnUserSpeaking ==
    /\ HeadIs("handle", "user_speaking")
    /\ ready' = Tail(ready)
    /\ IF Head(ready).data
       THEN AutoChatUpdate(TRUE, tts_playing, llm_inputing)
       ELSE UNCHANGED auto_vars
    /\ UNCHANGED <<asr_vars, app_vars, llm_vars, tts_vars, hist_vars, tool_vars, bus_vars, life_vars>>

\* _on_speech_recognized: locks, then PromptIntegrator.add_prompt publishes
\* prompt_sending
OnSpeechRecognized ==
    /\ HeadIs("handle", "speech_recognized")
    /\ asr_locked' = TRUE
    /\ user_input_processing' = FALSE
    /\ ready' = Publish(Tail(ready), "prompt_sending", TRUE)
    /\ UNCHANGED <<asr_rest, is_running, llm_streaming, n_turns, llm_vars, tts_vars>>
    /\ AutoChatUpdate(FALSE, tts_playing, TRUE)
    /\ UNCHANGED <<hist_vars, tool_vars, bus_vars, life_vars>>

\* handle_user_input: a text typed into the input box; add_prompt publishes
\* prompt_sending
HandleUserInputUpTo(turns) ==
    /\ is_running
    /\ n_turns < turns
    /\ Len(ready) < MaxReady
    \* the model follows one LLM request at a time
    /\ llm_request = "none"
    /\ n_turns' = n_turns + 1
    /\ ready' = Publish(ready, "prompt_sending", TRUE)
    /\ UNCHANGED <<asr_vars, is_running, llm_streaming, user_input_processing, llm_vars,
                   tts_vars>>
    /\ AutoChatUpdate(user_speaking, tts_playing, TRUE)
    /\ UNCHANGED <<hist_vars, tool_vars, bus_vars, life_vars>>

HandleUserInput == HandleUserInputUpTo(MaxTurns)

(***************************************************************************)
(* LLMClient's message history: add_message and trim_messages.             *)
(***************************************************************************)
Roles == {"system", "user", "assistant"}

\* the message __init__ appends for a configured system prompt
SystemPrompt == [role |-> "system", content |-> "text", id |-> 0]

SystemMessages(msgs) == SelectSeq(msgs, LAMBDA msg : msg.role = "system")
NonSystemMessages(msgs) == SelectSeq(msgs, LAMBDA msg : msg.role # "system")

\* list[-n:] for n > 0
LastOf(list, n) ==
    IF Len(list) > n THEN SubSeq(list, Len(list) - n + 1, Len(list)) ELSE list

\* list[:n]
FirstOf(list, n) == IF Len(list) > n THEN SubSeq(list, 1, n) ELSE list

TrimMessagesKeepingOldest(msgs) ==
    IF Len(msgs) <= max_messages
    THEN msgs
    ELSE SystemMessages(msgs) \o FirstOf(NonSystemMessages(msgs), max_messages)

\* trim_messages, with enable_limit set
TrimMessages(msgs) ==
    IF Len(msgs) <= max_messages
    THEN msgs
    ELSE SystemMessages(msgs) \o LastOf(NonSystemMessages(msgs), max_messages)

\* the message an add_message call appends; id tells the messages apart
NewMessage(role, content) == [role |-> role, content |-> content, id |-> Len(added) + 1]

\* add_message, with enable_limit set
AddMessage(msgs, msg) == TrimMessages(Append(msgs, msg))

\* a caller of the client adds a message of any role
AddMessageCall(role) ==
    /\ Len(added) < MaxAdded
    /\ messages' = AddMessage(messages, NewMessage(role, "text"))
    /\ added' = Append(added, NewMessage(role, "text"))
    /\ UNCHANGED <<asr_vars, app_vars, llm_vars, tts_vars, tool_vars, bus_vars, life_vars, auto_vars, ready>>

(***************************************************************************)
(* The arguments of a tool call: _handle_streaming_response cuts the       *)
(* accumulated string at the first point its braces balance, json.loads    *)
(* parses the rest.  A JSON text is a sequence of characters; a letter     *)
(* stands for a member.                                                    *)
(***************************************************************************)
\* the quote of a JSON string
Quote == "\""

RECURSIVE StripLeft(_)
StripLeft(text) ==
    IF text # <<>> /\ Head(text) \in Whitespace THEN StripLeft(Tail(text)) ELSE text

RECURSIVE StripRight(_)
StripRight(text) ==
    IF text # <<>> /\ text[Len(text)] \in Whitespace
    THEN StripRight(SubSeq(text, 1, Len(text) - 1))
    ELSE text

\* str.strip()
Strip(text) == StripRight(StripLeft(text))

\* '}{' in text
HasJoint(text) == \E i \in 1..(Len(text) - 1) : text[i] = "}" /\ text[i + 1] = "{"

\* the loop over the characters: end_pos, 0 when the count never returns to 0
RECURSIVE BraceScan(_, _, _)
BraceScan(text, i, brace_count) ==
    IF i > Len(text) THEN 0
    ELSE IF text[i] = "{" THEN BraceScan(text, i + 1, brace_count + 1)
    ELSE IF text[i] = "}"
         THEN IF brace_count - 1 = 0 THEN i ELSE BraceScan(text, i + 1, brace_count - 1)
         ELSE BraceScan(text, i + 1, brace_count)

ToolArgsStrWhole(args) == Strip(args)

\* tool_args_str as json.loads receives it
ToolArgsStr(args) ==
    LET tool_args_str == Strip(args)
        end_pos == BraceScan(tool_args_str, 1, 0)
    IN  IF HasJoint(tool_args_str) /\ end_pos > 0
        THEN SubSeq(tool_args_str, 1, end_pos)
        ELSE tool_args_str

\* json.loads accepts the text as one object: braces balance outside strings,
\* nothing follows the closing brace
RECURSIVE JsonScan(_, _, _, _, _)
JsonScan(text, i, depth, in_string, closed) ==
    IF i > Len(text) THEN closed /\ ~in_string
    ELSE LET char == text[i] IN
         IF in_string THEN JsonScan(text, i + 1, depth, char # Quote, closed)
         ELSE IF char \in Whitespace THEN JsonScan(text, i + 1, depth, FALSE, closed)
         ELSE IF closed THEN FALSE
         ELSE IF char = "{" THEN JsonScan(text, i + 1, depth + 1, FALSE, FALSE)
         ELSE IF depth = 0 THEN FALSE
         ELSE IF char = "}" THEN JsonScan(text, i + 1, depth - 1, FALSE, depth = 1)
         ELSE JsonScan(text, i + 1, depth, char = Quote, FALSE)

IsJsonObject(text) == JsonScan(text, 1, 0, FALSE, FALSE)

\* json.loads: the object the text denotes, or JSONDecodeError
JsonLoads(text) ==
    IF IsJsonObject(text)
    THEN [ok |-> TRUE, value |-> Strip(text)]
    ELSE [ok |-> FALSE, value |-> <<>>]

\* the JSON objects a reply's tool-call fragments spell
ToolObjects ==
    { <<"{", "a", "}">>,
      <<"{", "b", "}">>,
      <<"{", "a", "{", "}", "}">>,
      <<"{", Quote, "}", Quote, "}">> }

\* the temporary message of a tool round trip and the empty user turn of
\* the request that follows it
ToolUsage(id) == [role |-> "assistant", content |-> "use_tool", id |-> id]
EmptyTurn(id) == [role |-> "user", content |-> "empty", id |-> id]

\* the cleanup: [msg for msg in self.messages if "use_tool" not in content]
StripToolUsage(msgs) == SelectSeq(msgs, LAMBDA msg : msg.content # "use_tool")

\* if full_response.strip(): add_message("assistant", full_response)
AddAssistant(msgs, full_response) ==
    IF IsBlank(full_response) THEN msgs
    ELSE AddMessage(msgs, NewMessage("assistant", "text"))

AddedAssistant(full_response) ==
    IF IsBlank(full_response) THEN added
    ELSE Append(added, NewMessage("assistant", "text"))

(***************************************************************************)
(* LLMClient.send_message and ContextProcessor.handle_llm_output.          *)
(***************************************************************************)
\* _on_send_prompt -> _on_input_to_llm -> send_message, up to the POST
OnSendPrompt ==
    /\ HeadIs("handle", "prompt_sending")
    /\ llm_request = "none"
    /\ ready' = Tail(ready)
    \* send_message: the user turn joins the history
    /\ messages' = AddMessage(messages, NewMessage("user", "text"))
    /\ added' = Append(added, NewMessage("user", "text"))
    \* _handle_streaming_response resets the tool-call state
    /\ tool_args' = <<>>
    /\ usetool' = FALSE
    /\ tool_round' = 0
    /\ outer_response' = <<>>
    /\ tool_chunks' = <<>>
    /\ tool_call' = <<>>
    /\ llm_request' = "posting"
    /\ n_tokens' = 0
    /\ streamed' = <<>>
    /\ enqueued' = <<>>
    /\ llm_failed' = FALSE
    /\ UNCHANGED <<asr_vars, app_vars, buffer, text_segment_queue, current_full_text,
                   play_vars, was_active>>
    /\ UNCHANGED <<auto_vars, bus_vars, life_vars>>

\* send_message's except clause publishes llm_error and raises.  Raised by
\* the request a tool round trip re-issued, the error is caught by the
\* request that called the tool: it adds its own response to the history
\* and publishes llm_complete, the cleanup of the history skipped
RequestFails ==
    /\ llm_request' = "none"
    /\ llm_failed' = TRUE
    /\ IF tool_round = 0
       THEN /\ ready' = Publish(ready, "llm_error", FALSE)
            /\ UNCHANGED hist_vars
       ELSE /\ ready' = Publish(Publish(ready, "llm_error", FALSE), "llm_complete", TRUE)
            /\ messages' = AddAssistant(messages, outer_response)
            /\ added' = AddedAssistant(outer_response)
    /\ tool_round' = 0

\* the response arrives: status 200, or an error status or a connection error
LlmResponse(ok) ==
    /\ llm_request = "posting"
    /\ Len(ready) < MaxReady
    /\ IF ok
       THEN /\ llm_request' = "streaming"
            /\ llm_failed' = FALSE
            /\ UNCHANGED <<ready, hist_vars, tool_round>>
       ELSE RequestFails
    /\ UNCHANGED <<asr_vars, app_vars, n_tokens, buffer, streamed, tts_vars>>
    /\ UNCHANGED <<tool_args, usetool, outer_response, tool_chunks, tool_call>>
    /\ UNCHANGED <<auto_vars, bus_vars, life_vars>>

\* one content token: handle_llm_output(token, _, False)
StreamToken(token) ==
    /\ llm_request = "streaming"
    /\ Len(ready) < MaxReady
    \* _process_stream yields no content once the reply carries a tool call
    /\ ~usetool
    /\ n_tokens' = n_tokens + 1
    /\ streamed' = streamed \o token
    /\ IF ContainsAny(token, context_punctuations)
       THEN /\ ready' = PublishText(ready, "llm_streaming", FALSE, buffer \o token)
            /\ buffer' = <<>>
       ELSE /\ buffer' = buffer \o token
            /\ UNCHANGED ready
    /\ UNCHANGED <<asr_vars, app_vars, llm_request, llm_failed, tts_vars>>
    /\ UNCHANGED ext_vars

\* a reply of at most MaxTokens content tokens
LlmToken(token) ==
    /\ n_tokens < MaxTokens
    /\ StreamToken(token)

\* the stream ends without a tool call: handle_llm_output('', _, True), then
\* _handle_streaming_response publishes llm_complete itself
LlmDone ==
    /\ llm_request = "streaming"
    /\ Len(ready) < MaxReady
    /\ ~(usetool /\ tool_args # <<>>)
    /\ llm_request' = "none"
    /\ added' = AddedAssistant(streamed)
    /\ LET final == Publish(Publish(PublishText(ready, "llm_streaming", TRUE, buffer),
                                    "llm_complete", FALSE),
                            "llm_complete", TRUE)
       IN  IF tool_round = 0
           THEN /\ messages' = AddAssistant(messages, streamed)
                /\ ready' = final
           ELSE \* back in the request that called the tool: the cleanup, then
                \* its own llm_complete
                /\ messages' = StripToolUsage(AddAssistant(messages, streamed))
                /\ ready' = Publish(final, "llm_complete", TRUE)
    /\ tool_round' = 0
    /\ buffer' = <<>>
    /\ UNCHANGED <<asr_vars, app_vars, n_tokens, streamed, llm_failed, tts_vars>>
    /\ UNCHANGED <<tool_args, usetool, outer_response, tool_chunks, tool_call>>
    /\ UNCHANGED <<auto_vars, bus_vars, life_vars>>

\* a fragment of a tool call: _process_stream accumulates the arguments.  The
\* model follows one tool round trip a turn: the request re-issued after the
\* tool's result carries no tool call
LlmToolChunk(args) ==
    /\ llm_request = "streaming"
    /\ Len(ready) < MaxReady
    /\ tool_round = 0
    /\ Len(tool_chunks) < MaxToolChunks
    /\ tool_args' = tool_args \o args
    /\ usetool' = TRUE
    /\ tool_chunks' = Append(tool_chunks, args)
    /\ UNCHANGED <<asr_vars, app_vars, llm_vars, tts_vars, hist_vars, tool_round,
                   outer_response, tool_call, ready>>
    /\ UNCHANGED <<auto_vars, bus_vars, life_vars>>

\* the stream ends with a tool call accumulated: the arguments are parsed and
\* the tool called, or json.loads raises and the response is handled as a
\* plain one
LlmDoneTool ==
    /\ llm_request = "streaming"
    /\ Len(ready) < MaxReady
    /\ usetool /\ tool_args # <<>>
    /\ LET tool_args_dict == JsonLoads(ToolArgsStr(tool_args))
       IN  IF tool_args_dict.ok
           THEN /\ llm_request' = "calling"
                /\ tool_call' = Append(tool_call, tool_args_dict.value)
                /\ UNCHANGED <<hist_vars, ready>>
           ELSE /\ llm_request' = "none"
                /\ messages' = AddAssistant(messages, streamed)
                /\ added' = AddedAssistant(streamed)
                /\ ready' = Publish(ready, "llm_complete", TRUE)
                /\ UNCHANGED tool_call
    /\ UNCHANGED <<asr_vars, app_vars, n_tokens, buffer, streamed, llm_failed, tts_vars>>
    /\ UNCHANGED <<tool_args, usetool, tool_round, outer_response, tool_chunks>>
    /\ UNCHANGED <<auto_vars, bus_vars, life_vars>>

\* call_tool returns: the tool-usage message joins the history and
\* send_message("") re-issues the request; or call_tool raises and the
\* response is handled as a plain one
ToolResult(ok) ==
    /\ llm_request = "calling"
    /\ Len(ready) < MaxReady
    /\ IF ok
       THEN /\ messages' = AddMessage(AddMessage(messages, ToolUsage(Len(added) + 1)),
                                      EmptyTurn(Len(added) + 2))
            /\ added' = added \o <<ToolUsage(Len(added) + 1), EmptyTurn(Len(added) + 2)>>
            /\ tool_args' = <<>>
            /\ usetool' = FALSE
            /\ tool_round' = 1
            /\ outer_response' = streamed
            /\ streamed' = <<>>
            /\ n_tokens' = 0
            /\ llm_request' = "posting"
            /\ UNCHANGED ready
       ELSE /\ messages' = AddAssistant(messages, streamed)
            /\ added' = AddedAssistant(streamed)
            /\ ready' = Publish(ready, "llm_complete", TRUE)
            /\ llm_request' = "none"
            /\ UNCHANGED <<tool_args, usetool, tool_round, outer_response, streamed,
                           n_tokens>>
    /\ UNCHANGED <<asr_vars, app_vars, buffer, llm_failed, tts_vars, tool_chunks, tool_call>>
    /\ UNCHANGED <<auto_vars, bus_vars, life_vars>>

\* the connection fails while the response streams
LlmStreamError ==
    /\ llm_request = "streaming"
    /\ Len(ready) < MaxReady
    /\ RequestFails
    /\ UNCHANGED <<asr_vars, app_vars, n_tokens, buffer, streamed, tts_vars>>
    /\ UNCHANGED <<tool_args, usetool, outer_response, tool_chunks, tool_call>>
    /\ UNCHANGED <<auto_vars, bus_vars, life_vars>>

(***************************************************************************)
(* AppManager's handlers of the LLM events.                                *)
(***************************************************************************)
\* the segments _on_llm_streaming hands to add_streaming_text, and the text
\* it keeps in current_full_text
StreamingCut(text, is_final) ==
    LET full == current_full_text \o text
        segments == SegmentText(full)
    IN  IF ~is_final
        THEN IF ContainsAny(text, punctuations)
             THEN IF Len(segments) > 1
                  THEN [send |-> SubSeq(segments, 1, Len(segments) - 1),
                        keep |-> segments[Len(segments)]]
                  ELSE IF Len(segments) = 1
                       THEN [send |-> segments, keep |-> <<>>]
                       ELSE \* segments[0] raises, the handler logs it
                            [send |-> <<>>, keep |-> full]
             ELSE [send |-> <<>>, keep |-> full]
        ELSE IF text # <<>>
             THEN IF ~IsBlank(full)
                  THEN [send |-> SelectSeq(segments, LAMBDA seg : ~IsBlank(seg)),
                        keep |-> <<>>]
                  ELSE [send |-> <<>>, keep |-> full]
             ELSE [send |-> <<>>, keep |-> current_full_text]

OnLlmStreaming ==
    /\ HeadIs("handle", "llm_streaming")
    /\ LET is_final == Head(ready).data
           text == RemoveNewlines(Head(ready).text)
           cut == StreamingCut(text, is_final)
       IN  /\ llm_streaming' = IF ~is_final THEN TRUE
                               ELSE IF text # <<>> THEN FALSE ELSE llm_streaming
           /\ IF tts_enabled
              THEN /\ text_segment_queue' = text_segment_queue \o cut.send
                   /\ enqueued' = enqueued \o cut.send
                   /\ current_full_text' = cut.keep
              ELSE \* without a TTS client the text goes to the subtitles only
                   UNCHANGED <<text_segment_queue, enqueued, current_full_text>>
    /\ ready' = Tail(ready)
    /\ UNCHANGED <<asr_vars, is_running, user_input_processing, n_turns, llm_vars,
                   play_vars, was_active>>
    /\ UNCHANGED ext_vars

OnLlmComplete ==
    /\ HeadIs("handle", "llm_complete")
    /\ llm_streaming' = FALSE
    /\ CheckAndUpdateAsrStatus(Tail(ready))
    /\ UNCHANGED <<asr_rest, is_running, user_input_processing, n_turns, llm_vars,
                   enqueued, is_processing, is_playing_audio, processing_task, segment,
                   playback_task, text_animation_task, tts_failed>>
    /\ AutoChatUpdate(user_speaking, tts_playing, FALSE)
    /\ UNCHANGED <<hist_vars, tool_vars, bus_vars, life_vars>>

OnLlmError ==
    /\ HeadIs("handle", "llm_error")
    /\ llm_streaming' = FALSE
    /\ user_input_processing' = FALSE
    /\ ready' = Tail(ready)
    /\ UNCHANGED <<asr_vars, is_running, n_turns, llm_vars, tts_vars>>
    /\ UNCHANGED ext_vars

(***************************************************************************)
(* AppManager's handlers of the TTS events.                                *)
(***************************************************************************)
OnTtsStart ==
    /\ HeadIs("handle", "tts_start")
    /\ CheckAndUpdateAsrStatus(Tail(ready))
    /\ UNCHANGED <<asr_rest, app_vars, llm_vars, enqueued, is_processing,
                   is_playing_audio, processing_task, segment, playback_task,
                   text_animation_task, tts_failed>>
    /\ AutoChatUpdate(user_speaking, TRUE, llm_inputing)
    /\ UNCHANGED <<hist_vars, tool_vars, bus_vars, life_vars>>

OnTtsEnd ==
    /\ HeadIs("handle", "tts_end")
    /\ CheckAndUpdateAsrStatus(Tail(ready))
    /\ UNCHANGED <<asr_rest, app_vars, llm_vars, enqueued, is_processing,
                   is_playing_audio, processing_task, segment, playback_task,
                   text_animation_task, tts_failed>>
    /\ AutoChatUpdate(user_speaking, FALSE, llm_inputing)
    /\ UNCHANGED <<hist_vars, tool_vars, bus_vars, life_vars>>

(***************************************************************************)
(* AutoChatModule: the idle check loop, and AppManager's handler of its    *)
(* request.  The clock is read only through now - last_interaction_time    *)
(* >= idle_time.                                                           *)
(***************************************************************************)
\* idle_time goes by with no update_last_interaction_time
IdleTimePasses ==
    /\ auto_chat
    /\ is_running
    /\ ~idle_elapsed
    /\ idle_elapsed' = TRUE
    /\ UNCHANGED <<asr_vars, app_vars, llm_vars, tts_vars, hist_vars, tool_vars, bus_vars, life_vars,
                   auto_chat, n_auto, user_speaking, tts_playing, llm_inputing, ready>>

\* _can_trigger_auto_chat
CanTriggerAutoChat == ~user_speaking /\ ~tts_playing /\ ~llm_inputing

\* one round of _idle_check_loop that finds the idle time elapsed:
\* _check_idle_state publishes auto_chat_request, or a busy flag makes
\* _can_trigger_auto_chat restart the idle time
IdleCheck ==
    /\ auto_chat
    /\ is_running
    /\ idle_elapsed
    /\ idle_elapsed' = FALSE
    /\ IF CanTriggerAutoChat
       THEN /\ n_auto < MaxAuto
            /\ Len(ready) < MaxReady
            /\ n_auto' = n_auto + 1
            /\ ready' = Publish(ready, "auto_chat_request", TRUE)
       ELSE UNCHANGED <<n_auto, ready>>
    /\ UNCHANGED <<asr_vars, app_vars, llm_vars, tts_vars, hist_vars, tool_vars, bus_vars, life_vars,
                   auto_chat, user_speaking, tts_playing, llm_inputing>>

\* _on_auto_chat_request: unless the LLM streams, the TTS is active
\* (is_active publishes tts_end when it finds the TTS gone idle) or a
\* recognized text is being handled, add_prompt publishes prompt_sending
OnAutoChatRequest ==
    /\ HeadIs("handle", "auto_chat_request")
    /\ IF llm_streaming
       THEN /\ ready' = Tail(ready)
            /\ UNCHANGED was_active
       ELSE /\ was_active' = IsActive
            /\ LET q == IF ~IsActive /\ was_active
                        THEN Publish(Tail(ready), "tts_end", FALSE)
                        ELSE Tail(ready)
               IN  ready' = IF ~IsActive /\ ~user_input_processing
                            THEN Publish(q, "prompt_sending", TRUE)
                            ELSE q
    /\ UNCHANGED <<asr_vars, app_vars, llm_vars, text_vars, play_vars, ext_vars>>

(***************************************************************************)
(* TTSClient._process_text_loop.                                           *)
(***************************************************************************)
\* a text loop that takes the newest segment of the queue, not the oldest
ProcessTextTakeNewest ==
    /\ processing_task = "waiting"
    /\ Len(ready) < MaxReady
    /\ text_segment_queue # <<>>
    /\ segment' = text_segment_queue[Len(text_segment_queue)]
    /\ text_segment_queue' = SubSeq(text_segment_queue, 1, Len(text_segment_queue) - 1)
    /\ is_processing' = TRUE
    /\ processing_task' = "synth"
    /\ UNCHANGED <<asr_vars, app_vars, llm_vars, current_full_text, enqueued,
                   tts_audio_data_queue, is_playing_audio, playback_task,
                   text_animation_task, tts_failed, was_active, ready>>
    /\ UNCHANGED ext_vars

\* a segment arrives from the queue; _convert_text_to_speech posts it
ProcessTextTake ==
    /\ processing_task = "waiting"
    /\ Len(ready) < MaxReady
    /\ text_segment_queue # <<>>
    /\ segment' = Head(text_segment_queue)
    /\ text_segment_queue' = Tail(text_segment_queue)
    /\ is_processing' = TRUE
    /\ processing_task' = "synth"
    /\ UNCHANGED <<asr_vars, app_vars, llm_vars, current_full_text, enqueued,
                   tts_audio_data_queue, is_playing_audio, playback_task,
                   text_animation_task, tts_failed, was_active, ready>>
    /\ UNCHANGED ext_vars

\* the synthesis service answers with audio, or the conversion returns None
ConvertTextToSpeech(ok) ==
    /\ processing_task = "synth"
    /\ Len(ready) < MaxReady
    /\ tts_audio_data_queue' = IF ok THEN Append(tts_audio_data_queue, segment)
                               ELSE tts_audio_data_queue
    /\ is_processing' = FALSE
    /\ processing_task' = "waiting"
    /\ segment' = <<>>
    /\ tts_failed' = (tts_failed \/ ~ok)
    /\ UNCHANGED <<asr_vars, app_vars, llm_vars, text_vars, is_playing_audio,
                   playback_task, text_animation_task, was_active, ready>>
    /\ UNCHANGED ext_vars

(***************************************************************************)
(* TTSClient._playback_loop, _play_audio and _text_animation_task.         *)
(***************************************************************************)
\* an audio package arrives from the queue; _play_audio starts to play it,
\* or fails to parse it and runs its finally block
PlayAudio(ok) ==
    /\ playback_task = "waiting"
    /\ Len(ready) < MaxReady
    /\ tts_audio_data_queue # <<>>
    /\ tts_audio_data_queue' = Tail(tts_audio_data_queue)
    /\ IF ok
       THEN /\ is_playing_audio' = TRUE
            /\ text_animation_task' = "created"
            /\ ready' = Append(ready, AnimationTask)
            /\ playback_task' = "playing"
       ELSE /\ ready' = Publish(ready, "tts_end", FALSE)
            /\ is_playing_audio' = FALSE
            /\ UNCHANGED <<text_animation_task, playback_task>>
    /\ tts_failed' = (tts_failed \/ ~ok)
    /\ UNCHANGED <<asr_vars, app_vars, llm_vars, text_vars, is_processing,
                   processing_task, segment, was_active>>
    /\ UNCHANGED ext_vars

\* the animation task starts and publishes tts_start; a task cancelled before
\* its first step never runs
AnimationStart ==
    /\ ready # <<>>
    /\ Head(ready).task = "animation"
    /\ IF text_animation_task = "created"
       THEN /\ text_animation_task' = "running"
            /\ ready' = Publish(Tail(ready), "tts_start", FALSE)
            /\ UNCHANGED playback_task
       ELSE /\ text_animation_task' = "done"
            /\ ready' = Tail(ready)
            /\ playback_task' = "waiting"
    /\ UNCHANGED <<asr_vars, app_vars, llm_vars, text_vars, tts_audio_data_queue,
                   is_processing, is_playing_audio, processing_task, segment, tts_failed,
                   was_active>>
    /\ UNCHANGED ext_vars

\* the animation has shown the whole segment; its finally publishes tts_end
AnimationEnd ==
    /\ text_animation_task = "running"
    /\ Len(ready) < MaxReady
    /\ text_animation_task' = "done"
    /\ ready' = Publish(ready, "tts_end", FALSE)
    /\ UNCHANGED <<asr_vars, app_vars, llm_vars, text_vars, tts_audio_data_queue,
                   is_processing, is_playing_audio, processing_task, segment,
                   playback_task, tts_failed,
                   was_active>>
    /\ UNCHANGED ext_vars

\* the stream is no longer active: the finally block of _play_audio
PlayAudioFinally ==
    /\ playback_task = "playing"
    /\ Len(ready) < MaxReady
    /\ ready' = Publish(ready, "tts_end", FALSE)
    /\ is_playing_audio' = FALSE
    /\ IF HasAnimationTask
       THEN /\ text_animation_task' = IF text_animation_task = "created"
                                      THEN "cancelled_created" ELSE "cancelled"
            /\ playback_task' = "joining"
       ELSE /\ playback_task' = "waiting"
            /\ UNCHANGED text_animation_task
    /\ UNCHANGED <<asr_vars, app_vars, llm_vars, text_vars, tts_audio_data_queue,
                   is_processing, processing_task, segment, tts_failed,
                   was_active>>
    /\ UNCHANGED ext_vars

\* the cancelled animation task runs its finally block; _play_audio returns
AnimationCancelled ==
    /\ text_animation_task = "cancelled"
    /\ Len(ready) < MaxReady
    /\ text_animation_task' = "done"
    /\ ready' = Publish(ready, "tts_end", FALSE)
    /\ playback_task' = "waiting"
    /\ UNCHANGED <<asr_vars, app_vars, llm_vars, text_vars, tts_audio_data_queue,
                   is_processing, is_playing_audio, processing_task, segment, tts_failed,
                   was_active>>
    /\ UNCHANGED ext_vars

(***************************************************************************)
(* The calls made on TTSClient from outside: add_streaming_text, reset     *)
(* and speak.                                                              *)
(***************************************************************************)
tts_rest == <<asr_vars, app_vars, llm_vars, ext_vars>>

AddStreamingText(text) ==
    /\ Len(enqueued) < MaxEnqueued
    /\ text_segment_queue' = Append(text_segment_queue, text)
    /\ enqueued' = Append(enqueued, text)
    /\ UNCHANGED <<current_full_text, play_vars, was_active, tts_rest, ready>>

\* reset: the texts and the two queues are cleared, and nothing else
TtsReset ==
    /\ current_full_text' = <<>>
    /\ text_segment_queue' = <<>>
    /\ tts_audio_data_queue' = <<>>
    /\ UNCHANGED <<enqueued, is_processing, is_playing_audio, processing_task, segment,
                   playback_task, text_animation_task, tts_failed, was_active, tts_rest,
                   ready>>

\* speak: reset, then the segments of the text join the queue
TtsSpeak(text) ==
    /\ ~IsBlank(text)
    /\ Len(enqueued) + Len(SegmentText(text)) <= MaxEnqueued
    /\ current_full_text' = <<>>
    /\ text_segment_queue' = SegmentText(text)
    /\ tts_audio_data_queue' = <<>>
    /\ enqueued' = enqueued \o SegmentText(text)
    /\ UNCHANGED <<is_processing, is_playing_audio, processing_task, segment,
                   playback_task, text_animation_task, tts_failed, was_active, tts_rest,
                   ready>>

(***************************************************************************)
(* EventBus, followed for one event type of its own: subscribe,            *)
(* unsubscribe, publish, publish_sync, the handler tasks and shutdown.     *)
(* The bus lock is never held across a suspension, so it is never          *)
(* contended and each call runs to its end without suspending, except      *)
(* shutdown at its gather.                                                 *)
(***************************************************************************)
rest_vars == <<asr_vars, app_vars, llm_vars, tts_vars, hist_vars, tool_vars, auto_vars,
               life_vars, ready>>

\* the callbacks a caller may subscribe: a coroutine function (its task ends
\* whether it returns or raises) or a plain function, one that returns or
\* one that raises
Callbacks == {"co", "fn", "fn_raises"}
\* inspect.iscoroutinefunction(callback)
IsCoroutineFunction(callback) == callback \in {"co", "on_app_shutdown"}
Raises(callback) == callback = "fn_raises"

NoCall == [op |-> "", closed |-> FALSE, raised |-> FALSE]
\* a call made with is_shutting_down as it is, that returned None; the call
\* is named when it found the bus closed
Returned(op) ==
    [op |-> IF is_shutting_down THEN op ELSE "", closed |-> is_shutting_down,
     raised |-> FALSE]

\* a task created to run a callback
BusTask(callback, via) ==
    [callback |-> callback, via |-> via, state |-> "created", invocations |-> 0]
\* a plain function publish_sync has called inline
InlineCall(callback) ==
    [callback |-> callback, via |-> "inline",
     state |-> IF Raises(callback) THEN "raised" ELSE "done", invocations |-> 1]
Done(i) == handler_tasks[i].state \in {"done", "cancelled", "raised"}
\* publish: one task per subscribed callback, in subscription order
CallbackTasksInReverse(via) ==
    [i \in 1..Len(subscribers) |->
        BusTask(subscribers[Len(subscribers) + 1 - i], via)]
CallbackTasks(via) ==
    [i \in 1..Len(subscribers) |-> BusTask(subscribers[i], via)]
Created(entries) == (Len(handler_tasks) + 1)..(Len(handler_tasks) + Len(entries))

\* list.remove(callback): the first occurrence goes
RECURSIVE ListRemove(_, _)
ListRemove(list, callback) ==
    IF list = <<>> THEN <<>>
    ELSE IF Head(list) = callback THEN Tail(list)
    ELSE <<Head(list)>> \o ListRemove(Tail(list), callback)
InList(list, callback) == \E i \in 1..Len(list) : list[i] = callback

\* subscribe
BusSubscribe(callback) ==
    /\ last_call' = Returned("subscribe")
    /\ IF is_shutting_down
       THEN UNCHANGED <<subscribers, in_subscribers>>
       ELSE /\ Len(subscribers) < MaxSubscribers
            /\ subscribers' = Append(subscribers, callback)
            /\ in_subscribers' = TRUE
    /\ UNCHANGED <<is_shutting_down, handler_tasks, tasks, shutdown_task, cancel_tasks>>
    /\ UNCHANGED rest_vars

\* unsubscribe
BusUnsubscribe(callback) ==
    /\ last_call' = Returned("unsubscribe")
    /\ subscribers' = IF in_subscribers /\ InList(subscribers, callback)
                      THEN ListRemove(subscribers, callback)
                      ELSE subscribers
    /\ UNCHANGED <<is_shutting_down, in_subscribers, handler_tasks, tasks, shutdown_task,
                   cancel_tasks>>
    /\ UNCHANGED rest_vars

\* publish, with the tasks tracked in self.tasks or not
PublishWith(entries, tracked) ==
    /\ last_call' = Returned("publish")
    /\ IF is_shutting_down
       THEN UNCHANGED <<in_subscribers, handler_tasks, tasks>>
       ELSE /\ Len(handler_tasks) + Len(subscribers) <= MaxHandlerTasks
            \* self.subscribers[event_type] makes the key of a defaultdict
            /\ in_subscribers' = TRUE
            /\ handler_tasks' = handler_tasks \o entries
            /\ tasks' = IF tracked THEN tasks \cup Created(entries) ELSE tasks
    /\ UNCHANGED <<is_shutting_down, subscribers, shutdown_task, cancel_tasks>>
    /\ UNCHANGED rest_vars

PublishUnchecked ==
    /\ last_call' = Returned("publish")
    /\ Len(handler_tasks) + Len(subscribers) <= MaxHandlerTasks
    /\ in_subscribers' = TRUE
    /\ handler_tasks' = handler_tasks \o CallbackTasks("publish")
    /\ tasks' = tasks \cup Created(CallbackTasks("publish"))
    /\ UNCHANGED <<is_shutting_down, subscribers, shutdown_task, cancel_tasks>>
    /\ UNCHANGED rest_vars
BusPublish == PublishWith(CallbackTasks("publish"), TRUE)

\* the loop of publish_sync from callback i on: a coroutine function gets a
\* task, a plain function is called inline and its exception ends the loop
RECURSIVE SyncLoop(_, _)
SyncLoop(i, acc) ==
    IF i > Len(subscribers) THEN [entries |-> acc, raised |-> FALSE]
    ELSE LET callback == subscribers[i]
         IN  IF IsCoroutineFunction(callback)
             THEN SyncLoop(i + 1, Append(acc, BusTask(callback, "publish_sync")))
             ELSE IF Raises(callback)
             THEN [entries |-> Append(acc, InlineCall(callback)), raised |-> TRUE]
             ELSE SyncLoop(i + 1, Append(acc, InlineCall(callback)))

\* publish_sync: asyncio.create_task(callback(data)), kept nowhere
BusPublishSync ==
    /\ IF is_shutting_down
       THEN /\ last_call' = Returned("publish_sync")
            /\ UNCHANGED <<in_subscribers, handler_tasks>>
       ELSE /\ Len(handler_tasks) + Len(subscribers) <= MaxHandlerTasks
            /\ in_subscribers' = TRUE
            /\ handler_tasks' = handler_tasks \o SyncLoop(1, <<>>).entries
            /\ last_call' = [op |-> "", closed |-> FALSE,
                             raised |-> SyncLoop(1, <<>>).raised]
    /\ UNCHANGED <<is_shutting_down, subscribers, tasks, shutdown_task, cancel_tasks>>
    /\ UNCHANGED rest_vars

\* the event loop starts a task: tasks start in the order of their creation;
\* _process_callback (or the task of publish_sync) calls the callback
HandlerStarts(i) ==
    /\ handler_tasks[i].state = "created"
    /\ \A j \in 1..(i - 1) : handler_tasks[j].state # "created"
    /\ handler_tasks' = [handler_tasks EXCEPT ![i].state = "running",
                                              ![i].invocations = @ + 1]
    /\ UNCHANGED <<is_shutting_down, subscribers, in_subscribers, tasks, shutdown_task,
                   cancel_tasks, last_call>>
    /\ UNCHANGED rest_vars

HandlerReturnsAndStaysTracked(i) ==
    /\ handler_tasks[i].state = "running"
    /\ handler_tasks' = [handler_tasks EXCEPT ![i].state = "done"]
    /\ UNCHANGED <<is_shutting_down, subscribers, in_subscribers, tasks, shutdown_task,
                   cancel_tasks, last_call>>
    /\ UNCHANGED rest_vars

\* a callback returns or raises (_process_callback logs the exception); the
\* done callback discards the task from self.tasks
HandlerReturns(i) ==
    /\ handler_tasks[i].state = "running"
    /\ handler_tasks' = [handler_tasks EXCEPT ![i].state = "done"]
    /\ tasks' = tasks \ {i}
    /\ UNCHANGED <<is_shutting_down, subscribers, in_subscribers, shutdown_task,
                   cancel_tasks, last_call>>
    /\ UNCHANGED rest_vars

\* CancelledError reaches a cancelled task, which ends; one that had not
\* started never calls its callback
HandlerCancelled(i) ==
    /\ handler_tasks[i].state = "cancelling"
    /\ handler_tasks' = [handler_tasks EXCEPT ![i].state = "cancelled"]
    /\ tasks' = tasks \ {i}
    /\ UNCHANGED <<is_shutting_down, subscribers, in_subscribers, shutdown_task,
                   cancel_tasks, last_call>>
    /\ UNCHANGED rest_vars

\* shutdown up to its gather: the tasks of self.tasks are cancelled; with
\* none to wait for it goes on to clear the subscribers
BusShutdown ==
    /\ ~is_shutting_down
    /\ is_shutting_down' = TRUE
    /\ cancel_tasks' = {i \in tasks : ~Done(i)}
    /\ handler_tasks' = [i \in 1..Len(handler_tasks) |->
                            IF i \in cancel_tasks'
                            THEN [handler_tasks[i] EXCEPT !.state = "cancelling"]
                            ELSE handler_tasks[i]]
    /\ IF cancel_tasks' = {}
       THEN /\ subscribers' = <<>>
            /\ in_subscribers' = FALSE
            /\ shutdown_task' = "returned"
       ELSE /\ shutdown_task' = "gathering"
            /\ UNCHANGED <<subscribers, in_subscribers>>
    /\ UNCHANGED <<tasks, last_call>>
    /\ UNCHANGED rest_vars

\* shutdown called again: it finds is_shutting_down set and returns
BusShutdownAgain ==
    /\ is_shutting_down
    /\ last_call' = Returned("shutdown")
    /\ UNCHANGED <<is_shutting_down, subscribers, in_subscribers, handler_tasks, tasks,
                   shutdown_task, cancel_tasks>>
    /\ UNCHANGED rest_vars

\* the gather returns: shutdown clears the subscribers and returns
ShutdownGathered ==
    /\ shutdown_task = "gathering"
    /\ \A i \in cancel_tasks : Done(i)
    /\ subscribers' = <<>>
    /\ in_subscribers' = FALSE
    /\ shutdown_task' = "returned"
    /\ UNCHANGED <<is_shutting_down, handler_tasks, tasks, cancel_tasks, last_call>>
    /\ UNCHANGED rest_vars

\* AppManager._on_app_shutdown, running in handler task i: shutdown has
\* stopped the components and calls EventBus.shutdown, which cancels the
\* tasks of self.tasks, the calling task among them, and gathers them.  The
\* CancelledError reaches the task at that await and passes the except
\* Exception clauses of shutdown and _on_app_shutdown
HandlerShutsDownBus(i) ==
    /\ handler_tasks[i].callback = "on_app_shutdown"
    /\ handler_tasks[i].state = "running"
    /\ i \in tasks
    /\ ~is_shutting_down
    /\ is_shutting_down' = TRUE
    /\ cancel_tasks' = {j \in tasks : ~Done(j)}
    /\ handler_tasks' = [j \in 1..Len(handler_tasks) |->
                            IF j \in cancel_tasks'
                            THEN [handler_tasks[j] EXCEPT !.state = "cancelling"]
                            ELSE handler_tasks[j]]
    /\ shutdown_task' = "in_handler"
    /\ UNCHANGED <<subscribers, in_subscribers, tasks, last_call>>
    /\ UNCHANGED rest_vars

(***************************************************************************)
(* The state after construction: ASRClient.__init__, TTSClient.__init__,   *)
(* ContextProcessor.__init__, AppManager.__init__.                         *)
(***************************************************************************)
NoFinish == [outcome |-> "none", raw |-> 0, abs_start |-> 0, abs_end |-> 0,
             preroll |-> 0, since |-> 0]

Constructed(system_prompt, auto_chat_enabled) ==
    /\ asr_locked = TRUE
    /\ is_processing_audio = FALSE
    /\ is_recording = FALSE
    /\ continuous_buffer = 0
    /\ recording_start_index = 0
    /\ silence_timeout_task = "none"
    /\ running_task = "none"
    /\ since_speech = SinceCap
    /\ timer_left = 0
    /\ audio_data_queue = 0
    /\ cb_pc = "idle"
    /\ samples_received = 0
    /\ n_callbacks = 0
    /\ preroll_abs = 0
    /\ last_finish = NoFinish
    /\ asr_requests = 0
    /\ ignored = FALSE
    /\ is_running = FALSE
    /\ llm_streaming = FALSE
    /\ user_input_processing = FALSE
    /\ n_turns = 0
    /\ llm_request = "none"
    /\ n_tokens = 0
    /\ buffer = <<>>
    /\ text_segment_queue = <<>>
    /\ tts_audio_data_queue = <<>>
    /\ current_full_text = <<>>
    /\ is_processing = FALSE
    /\ is_playing_audio = FALSE
    /\ was_active = FALSE
    /\ processing_task = "waiting"
    /\ segment = <<>>
    /\ playback_task = "waiting"
    /\ text_animation_task = "none"
    /\ streamed = <<>>
    /\ enqueued = <<>>
    /\ llm_failed = FALSE
    /\ tts_failed = FALSE
    /\ messages = (IF system_prompt THEN <<SystemPrompt>> ELSE <<>>)
    /\ added = <<>>
    /\ tool_args = <<>>
    /\ usetool = FALSE
    /\ tool_round = 0
    /\ outer_response = <<>>
    /\ tool_chunks = <<>>
    /\ tool_call = <<>>
    /\ auto_chat = auto_chat_enabled
    /\ user_speaking = FALSE
    /\ tts_playing = FALSE
    /\ llm_inputing = FALSE
    /\ idle_elapsed = FALSE
    /\ n_auto = 0
    /\ is_shutting_down = FALSE
    /\ subscribers = <<>>
    /\ in_subscribers = FALSE
    /\ handler_tasks = <<>>
    /\ tasks = {}
    /\ shutdown_task = "none"
    /\ cancel_tasks = {}
    /\ last_call = NoCall
    /\ asr_stop = "none"
    /\ websocket = 0
    /\ connections = {}
    /\ n_connections = 0
    /\ retry_count = 0
    /\ attempts = 0
    /\ exhausted = FALSE
    /\ setup_pc = [c \in Callers |-> "idle"]
    /\ ready = <<>>

\* the assistant as configured: with a system prompt, the auto-chat module
\* switched off
Init == Constructed(TRUE, FALSE) /\ tts_enabled = TRUE

\* the assistant with the auto-chat module switched on
InitAuto == Constructed(TRUE, TRUE) /\ tts_enabled = TRUE

(***************************************************************************)
(* The recorder on its own: what ASRClient does for any microphone input,  *)
(* any VAD result, any transcription reply and any write of asr_locked by  *)
(* the coordinator.                                                        *)
(***************************************************************************)
\* AppManager sets asr_client.asr_locked = True (lines 310 and 576)
CoordinatorLocks ==
    /\ ~asr_locked
    /\ asr_locked' = TRUE
    /\ UNCHANGED <<asr_rest, sys_vars, ready>>

\* AppManager sets asr_client.asr_locked = False (line 313)
CoordinatorUnlocks ==
    /\ asr_locked
    /\ asr_locked' = FALSE
    /\ UNCHANGED <<asr_rest, sys_vars, ready>>

\* a handler of an ASR event runs; what it does lies outside the recorder
CoordinatorHandles ==
    /\ ready # <<>>
    /\ Head(ready).task = "handle"
    /\ ready' = Tail(ready)
    /\ UNCHANGED <<asr_vars, sys_vars>>

Recorder ==
    \/ AudioCallbackBegin
    \/ AudioCallbackPut
    \/ \E k \in {ShortRun, LongRun} : AudioCallbackRun(k)
    \/ \E n \in {1, BatchBlocks} : AudioProcessorTask(n)
    \/ \E is_speaking \in BOOLEAN : WebsocketListener(is_speaking)
    \/ Tick
    \/ SilenceTimeoutHandler
    \/ \E reply \in AsrReplies : ProcessRecordingReply(reply)
    \/ ProcessRecordingReturn
    \/ CancelledTaskFinally

NextASR ==
    \/ Recorder
    \/ RunPublishTask
    \/ CoordinatorHandles
    \/ CoordinatorLocks
    \/ CoordinatorUnlocks

SpecASR == Init /\ [][NextASR]_vars

(***************************************************************************)
(* The assistant: recorder, coordinator, LLM reply and TTS together.       *)
(***************************************************************************)
\* the content tokens the LLM service streams
Tokens == {<<"a">>, <<",">>, <<"a", ",">>, <<",", "a">>, <<" ">>, <<":">>, <<"\n">>}

Coordinator ==
    \/ AppStart
    \/ HandleUserInput
    \/ RunPublishTask
    \/ OnUserSpeaking
    \/ OnSpeechRecognized
    \/ OnSendPrompt
    \/ OnLlmStreaming
    \/ OnLlmComplete
    \/ OnLlmError
    \/ OnTtsStart
    \/ OnTtsEnd

\* the tokens of a reply of short sentences
SentenceTokens == {<<"a", ",">>}

Reply(tokens) ==
    \/ \E ok \in BOOLEAN : LlmResponse(ok)
    \/ \E token \in tokens : LlmToken(token)
    \/ LlmDone
    \/ LlmStreamError

Speaker ==
    \/ ProcessTextTake
    \/ \E ok \in BOOLEAN : ConvertTextToSpeech(ok)
    \/ \E ok \in BOOLEAN : PlayAudio(ok)
    \/ AnimationStart
    \/ AnimationEnd
    \/ PlayAudioFinally
    \/ AnimationCancelled

\* the recorder fed whole runs of audio
Listener ==
    \/ AudioCallbackRun(LongRun)
    \/ \E is_speaking \in BOOLEAN : WebsocketListener(is_speaking)
    \/ Tick
    \/ SilenceTimeoutHandler
    \/ \E reply \in AsrReplies : ProcessRecordingReply(reply)
    \/ ProcessRecordingReturn
    \/ CancelledTaskFinally

Next ==
    \/ Listener
    \/ Coordinator
    \/ Reply(SentenceTokens)
    \/ Speaker

Spec == Init /\ [][Next]_vars

\* the typed turn on its own: no microphone
NextSeg ==
    \/ AppStart
    \/ HandleUserInput
    \/ OnSendPrompt
    \/ OnLlmStreaming
    \/ OnLlmComplete
    \/ OnLlmError
    \/ OnTtsStart
    \/ OnTtsEnd
    \/ Reply(Tokens)
    \/ Speaker

SpecSeg == Init /\ [][NextSeg]_vars

\* the tokens of a reply of two different short sentences
TwoSentenceTokens == {<<"a", ",">>, <<"b", ",">>}

\* the typed turn answered in short sentences that differ
NextPlay ==
    \/ AppStart
    \/ HandleUserInput
    \/ OnSendPrompt
    \/ OnLlmStreaming
    \/ OnLlmComplete
    \/ OnLlmError
    \/ OnTtsStart
    \/ OnTtsEnd
    \/ Reply(TwoSentenceTokens)
    \/ Speaker

SpecPlay == Init /\ [][NextPlay]_vars

\* the TTS client on its own: what it does for any call made on it, the
\* handlers of its events left out
NextTTS ==
    \/ \E text \in TwoSentenceTokens : AddStreamingText(text)
    \/ TtsReset
    \/ \E text \in TwoSentenceTokens : TtsSpeak(text)
    \/ Speaker
    \/ CoordinatorHandles

SpecTTS == Init /\ [][NextTTS]_vars

\* the recorder until it is stopped: the stream and the tasks of self.tasks
\* run until stop cancels them, the silence timeout task runs on
NextStop ==
    \/ asr_stop = "none" /\ AudioCallbackRun(LongRun)
    \/ asr_stop = "none" /\ \E is_speaking \in BOOLEAN : WebsocketListener(is_speaking)
    \* the cancelled tasks end before a quarter of a second passes
    \/ asr_stop # "gathering" /\ Tick
    \/ SilenceTimeoutHandler
    \/ \E reply \in AsrReplies : ProcessRecordingReply(reply)
    \/ ProcessRecordingReturn
    \/ CancelledTaskFinally
    \/ CancelledSleepFinally
    \/ RunPublishTask
    \/ CoordinatorHandles
    \/ CoordinatorUnlocks
    \/ AsrStopBegin
    \/ AsrStopGathered
    \/ AsrStopReturn

SpecStop == Init /\ [][NextStop]_vars

\* the assistant started with or without a TTS client (tts_enabled of the
\* configuration), and typed turns after the start
InitStartup == \E enabled \in BOOLEAN : Constructed(TRUE, FALSE) /\ tts_enabled = enabled

NextStartup ==
    \/ AppStart
    \/ HandleUserInput
    \/ OnSendPrompt
    \/ OnLlmStreaming
    \/ OnLlmComplete
    \/ OnLlmError
    \/ OnTtsStart
    \/ OnTtsEnd
    \/ Reply(SentenceTokens)
    \/ Speaker

\* the event loop runs every task that is ready, the services answer
FairStartup ==
    /\ WF_vars(AppStart)
    /\ WF_vars(OnSendPrompt \/ OnLlmStreaming \/ OnLlmComplete \/ OnLlmError)
    /\ WF_vars(OnTtsStart \/ OnTtsEnd)
    /\ WF_vars(Reply(SentenceTokens))
    /\ WF_vars(Speaker)

SpecStartup == InitStartup /\ [][NextStartup]_vars /\ FairStartup

\* the microphone and the consumer of its queue, the ASR unlocked at the start
NextMic ==
    \/ CoordinatorUnlocks
    \/ AudioCallbackBegin
    \/ AudioCallbackPutNowait
    \/ AudioCallbackDropOldest
    \/ \E k \in {1, audio_queue_maxsize} : AudioCallbackBacklog(k)
    \/ \E n \in {1, BatchBlocks} : AudioProcessorTask(n)

SpecMic == Init /\ [][NextMic]_vars

\* the VAD connection: the two tasks, the microphone, the service closing the
\* connection and accepting or refusing a new one
NextConnection ==
    \/ CoordinatorUnlocks
    \/ AudioCallbackBacklog(1)
    \/ setup_pc["processor"] = "idle" /\ \E n \in {1, BatchBlocks} : AudioProcessorTask(n)
    \/ ConnectionLost
    \/ ListenerConnects
    \/ ListenerRecvClosed
    \/ ListenerReconnects
    \/ ListenerLoops
    \/ \E n \in {1, BatchBlocks} : ProcessorSendFails(n)
    \/ \E c \in Callers : SetupConnected(c)
    \/ \E c \in Callers : SetupReturns(c)
    \/ \E c \in Callers : SetupConnectFails(c)
    \/ \E c \in Callers : SetupRetries(c)

SpecConnection == Init /\ [][NextConnection]_vars

\* the history on its own: a client constructed with or without a system
\* prompt, and any sequence of add_message calls
InitHistory ==
    \E system_prompt \in BOOLEAN : Constructed(system_prompt, FALSE) /\ tts_enabled = TRUE

NextHistory == \E role \in Roles : AddMessageCall(role)

SpecHistory == InitHistory /\ [][NextHistory]_vars

\* a reply whose content tokens are those of stream, in order, then [DONE]
ScriptedReply(stream) ==
    \/ \E ok \in BOOLEAN : LlmResponse(ok)
    \/ n_tokens < Len(stream) /\ StreamToken(stream[n_tokens + 1])
    \/ n_tokens = Len(stream) /\ LlmDone
    \/ LlmStreamError

\* the assistant with the auto-chat module: the VAD link and the idle
\* check loop.  The model follows one LLM request at a time: a
\* prompt_sending event that finds a request in flight is left pending
AutoChat ==
    \/ IdleTimePasses
    \/ IdleCheck
    \/ OnAutoChatRequest

NextAuto ==
    \/ AppStart
    \/ \E is_speaking \in BOOLEAN : WebsocketListener(is_speaking)
    \/ Tick
    \/ SilenceTimeoutHandler
    \/ RunPublishTask
    \/ OnUserSpeaking
    \/ OnSendPrompt
    \/ OnLlmStreaming
    \/ OnLlmComplete
    \/ OnLlmError
    \/ OnTtsStart
    \/ OnTtsEnd
    \/ AutoChat
    \/ Reply(SentenceTokens)
    \/ Speaker

SpecAuto == InitAuto /\ [][NextAuto]_vars

\* the event loop runs every task that is ready and fires every timer, and
\* the idle check loop wakes up every check_interval whatever else is ready;
\* the user is free never to speak again
FairAuto ==
    /\ WF_vars(Tick)
    /\ WF_vars(SilenceTimeoutHandler)
    /\ WF_vars(RunPublishTask)
    /\ WF_vars(OnUserSpeaking)
    /\ WF_vars(OnSendPrompt \/ OnLlmStreaming \/ OnLlmComplete \/ OnLlmError)
    /\ WF_vars(OnTtsStart \/ OnTtsEnd \/ OnAutoChatRequest)
    /\ WF_vars(Reply(SentenceTokens))
    /\ WF_vars(Speaker)
    /\ WF_vars(IdleTimePasses)
    /\ SF_vars(IdleCheck)

SpecAutoFair == SpecAuto /\ FairAuto

\* one of the handler tasks takes a step
HandlerTaskRuns ==
    \/ \E i \in 1..MaxHandlerTasks : i <= Len(handler_tasks) /\ HandlerStarts(i)
    \/ \E i \in 1..MaxHandlerTasks : i <= Len(handler_tasks) /\ HandlerReturns(i)
    \/ \E i \in 1..MaxHandlerTasks : i <= Len(handler_tasks) /\ HandlerCancelled(i)

\* the event bus, its callers and its handler tasks
NextBus ==
    \/ \E callback \in Callbacks : BusSubscribe(callback)
    \/ \E callback \in Callbacks : BusUnsubscribe(callback)
    \/ BusPublish
    \/ BusPublishSync
    \/ HandlerTaskRuns
    \/ BusShutdown
    \/ BusShutdownAgain
    \/ ShutdownGathered

SpecBus == Init /\ [][NextBus]_vars

\* the handler tasks of the app_shutdown event and of another event handled
\* by a coroutine; _on_app_shutdown returns only when its shutdown has
AppShutdownTaskRuns ==
    \/ \E i \in 1..MaxHandlerTasks : i <= Len(handler_tasks) /\ HandlerStarts(i)
    \/ \E i \in 1..MaxHandlerTasks :
           /\ i <= Len(handler_tasks)
           /\ handler_tasks[i].callback = "on_app_shutdown" => shutdown_task = "returned"
           /\ HandlerReturns(i)
    \/ \E i \in 1..MaxHandlerTasks : i <= Len(handler_tasks) /\ HandlerCancelled(i)
    \/ \E i \in 1..MaxHandlerTasks : i <= Len(handler_tasks) /\ HandlerShutsDownBus(i)

\* the bus with AppManager's handler of app_shutdown subscribed
NextAppShutdown ==
    \/ \E callback \in {"co", "on_app_shutdown"} : BusSubscribe(callback)
    \/ BusPublish
    \/ AppShutdownTaskRuns
    \/ BusShutdown
    \/ ShutdownGathered

SpecAppShutdown == Init /\ [][NextAppShutdown]_vars

\* a reply that may carry a tool call
ToolReply ==
    \/ \E ok \in BOOLEAN : LlmResponse(ok)
    \/ \E token \in SentenceTokens : LlmToken(token)
    \/ \E args \in ToolObjects : LlmToolChunk(args)
    \/ LlmDone
    \/ LlmDoneTool
    \/ \E ok \in BOOLEAN : ToolResult(ok)
    \/ LlmStreamError

\* the typed turn with the tools of an MCP client offered to the LLM
NextTool ==
    \/ AppStart
    \/ HandleUserInput
    \/ OnSendPrompt
    \/ OnLlmStreaming
    \/ OnLlmComplete
    \/ OnLlmError
    \/ OnTtsStart
    \/ OnTtsEnd
    \/ ToolReply
    \/ Speaker

SpecTool == Init /\ [][NextTool]_vars

\* the content tokens "Hello", ",", " world."
HelloStream ==
    << <<"H", "e", "l", "l", "o">>, <<",">>, <<" ", "w", "o", "r", "l", "d", ".">> >>

\* typed turns whose reply is HelloStream
NextHello ==
    \/ AppStart
    \/ HandleUserInputUpTo(HelloTurns)
    \/ OnSendPrompt
    \/ OnLlmStreaming
    \/ OnLlmComplete
    \/ OnLlmError
    \/ OnTtsStart
    \/ OnTtsEnd
    \/ ScriptedReply(HelloStream)
    \/ Speaker

SpecHello == Init /\ [][NextHello]_vars

(***************************************************************************)
(* Properties of the recorder (SpecASR).                                   *)
(***************************************************************************)
\* the step is finish_recording closing the open recording
Finalizes == is_recording /\ ~is_recording'

\* the events of a type among the handler tasks of q
Events(q, type) == SelectSeq(q, LAMBDA t : t.task = "handle" /\ t.type = type)

\* C5: finish_recording finalizes an utterance if and only if a run of speech
\* frames is followed by at least silence_threshold (500 ms) of silence with no
\* speech frame in between, and never while asr_locked.  Hence once a silence
\* frame has found the silence of the open recording at least silence_threshold
\* long (the timeout task exists) and the ASR is not locked, the recording is
\* finalized: the timeout task does not go away with the recording still open.
C5_SilenceOfThresholdFinalizes ==
    [][(silence_timeout_task = "sleep" /\ ~asr_locked /\ silence_timeout_task' = "none")
       => ~is_recording']_vars

\* C6: each speech run followed by enough silence yields exactly one finalized
\* utterance, whose samples start at the pre-roll point computed at the first
\* speech frame of the run and end at the last sample buffered before
\* finalize, for every utterance length.
C6_UtteranceStartsAtPreRoll ==
    last_finish.outcome # "none"
        => /\ last_finish.abs_start = last_finish.preroll
           /\ last_finish.abs_end - last_finish.abs_start = last_finish.raw

\* C7: a finalized recording whose raw length is shorter than 0.3 s is
\* discarded, the ASR lock is released and no transcription request is sent.
C7_ShortRecordingDiscarded ==
    [][(Finalizes /\ RecordedSamples * 10 < sample_rate * 3)
       => /\ ~asr_locked'
          /\ asr_requests' = asr_requests
          /\ silence_timeout_task' = "none"
          /\ continuous_buffer' <= sample_rate]_vars

C7_Witness ==
    /\ last_finish.outcome = "short_raw"
    /\ last_finish.raw > 0
    /\ last_finish.raw * 10 < sample_rate * 3
    /\ ~asr_locked
    /\ asr_requests = 0

\* C8: when the transcription request returns a status other than 200, a
\* status other than success, or raises, no speech_recognized event is
\* published, no request is sent again, the recording is discarded, the lock
\* is released and the recorder accepts the next utterance.
TranscriptionFailed == last_finish.outcome \in {"rejected", "http", "raised"}

C8_TranscriptionFailureRecovers ==
    [][/\ (silence_timeout_task = "http" /\ TranscriptionFailed')
          => /\ Events(ready', "speech_recognized") = Events(ready, "speech_recognized")
             /\ asr_requests' = asr_requests
       /\ (silence_timeout_task \in {"http", "closing"} /\ silence_timeout_task' = "none"
           /\ running_task' = running_task /\ TranscriptionFailed')
          => /\ ~asr_locked'
             /\ ~is_recording'
             /\ HandleSpeechGuard'
             /\ continuous_buffer' <= sample_rate
             /\ audio_data_queue' = 0
       /\ (asr_requests' # asr_requests) => Finalizes]_vars

C8_Witness ==
    /\ TranscriptionFailed
    /\ silence_timeout_task = "none"
    /\ running_task = "none"
    /\ ~asr_locked
    /\ is_recording
    /\ asr_requests = 1

UtteranceInFlight ==
    \/ silence_timeout_task \in {"http", "closing"}
    \/ running_task = "cancelled"

\* C1: asr_locked is true whenever TTS audio is playing (is_playing_audio) or
\* a finalized utterance is still being processed.
C1_LockedWhilePlayingOrProcessing ==
    (is_playing_audio \/ UtteranceInFlight) => asr_locked

\* an event of the turn waits for its handler
TurnEventPending ==
    \E i \in 1..Len(ready) :
        ready[i].type \in {"speech_recognized", "prompt_sending", "llm_streaming",
                           "llm_complete"}

\* the LLM stream of the turn has ended and the TTS has played all it was given
TurnComplete ==
    /\ ~UtteranceInFlight
    /\ ~TurnEventPending
    /\ llm_request = "none"
    /\ ~IsActive

\* C2: after transcription succeeds asr_locked stays true until the whole
\* turn of the utterance has completed (the LLM stream has finished and all
\* TTS playback it produced has finished); the lock is not released when the
\* transcription returns.
C2_LockHeldThroughTurn ==
    (last_finish.outcome = "success" /\ ~TurnComplete) => asr_locked

\* the step is the coordinator clearing asr_locked (the recorder's own unlocks
\* end its timeout task)
CoordinatorClearsLock ==
    /\ asr_locked
    /\ ~asr_locked'
    /\ UNCHANGED <<silence_timeout_task, running_task>>

\* C3: at the end of a spoken response asr_locked is cleared only in a state
\* where the TTS text and audio queues are empty, the LLM stream of the turn
\* has signalled its final chunk and no animation task is pending.
C3_LockClearedOnlyAtEndOfResponse ==
    [][CoordinatorClearsLock
       => /\ text_segment_queue = <<>>
          /\ tts_audio_data_queue = <<>>
          /\ llm_request = "none"
          /\ ~HasAnimationTask]_vars

\* nothing is left to run: only the user can make the next step
Quiescent ==
    /\ is_running
    /\ ready = <<>>
    /\ cb_pc = "idle"
    /\ silence_timeout_task = "none"
    /\ running_task = "none"
    /\ llm_request = "none"
    /\ processing_task = "waiting"
    /\ playback_task = "waiting"
    /\ ~IsActive

\* C4: after a terminal error of a turn (transcription failure, LLM HTTP or
\* network error, TTS synthesis or playback failure) asr_locked becomes false
\* again without any further user action: the assistant does not come to rest
\* with the microphone locked.
C4_ErrorLeavesMicrophoneArmed ==
    (Quiescent /\ (TranscriptionFailed \/ llm_failed \/ tts_failed)) => ~asr_locked

(***************************************************************************)
(* Properties of the typed turn (SpecSeg).                                 *)
(***************************************************************************)
\* text without the characters str.strip() removes
NonBlank(text) == SelectSeq(text, LAMBDA c : c \notin Whitespace)

\* the reply has streamed to its end and every llm_streaming event is handled
ReplyDelivered ==
    /\ llm_request = "none"
    /\ ~llm_failed
    /\ Events(ready, "llm_streaming") = <<>>

\* C10: the concatenation, in order, of all segments enqueued to the TTS text
\* queue (the final flush included) equals the concatenation of the tokens of
\* the turn: no character is lost, duplicated or reordered.  Stated for the
\* characters that are not whitespace.
C10_SegmentsReproduceTokens ==
    ReplyDelivered => NonBlank(Concat(enqueued)) = NonBlank(streamed)

\* C11: an LLM stream of the content tokens "Hello", ",", " world." and then
\* [DONE] results in exactly two segments enqueued to the TTS, "Hello," first
\* and " world." second.
C11_HelloWorldTwoSegments ==
    (ReplyDelivered /\ streamed = Concat(HelloStream))
        => enqueued = << <<"H", "e", "l", "l", "o", ",">>,
                         <<" ", "w", "o", "r", "l", "d", ".">> >>

(***************************************************************************)
(* Properties of the reply with a tool call (SpecTool, SpecSeg).           *)
(***************************************************************************)
\* the step ends the stream of a reply that carries a tool call
StreamEndsWithToolCall ==
    /\ llm_request = "streaming"
    /\ usetool
    /\ llm_request' # "streaming"
    /\ ~llm_failed'

\* C12: when the accumulated argument string is a concatenation of two or
\* more JSON objects, the arguments passed to the tool are exactly the first
\* object and the remainder is ignored.
C12_FirstObjectIsPassed ==
    [][(StreamEndsWithToolCall /\ Len(tool_chunks) >= 2)
       => tool_call' = <<tool_chunks[1]>>]_vars

\* the tool was called and the request that called it has ended
RoundTripFinished ==
    /\ tool_call # <<>>
    /\ llm_request = "none"

\* C15: after a tool round trip has finished, whether the request that
\* follows the tool's result succeeds or fails, the history holds no
\* tool-usage message.
C15_ToolUsageStripped ==
    RoundTripFinished => StripToolUsage(messages) = messages

\* the step ends the stream of a reply without a tool call
StreamEndsPlain ==
    /\ llm_request = "streaming"
    /\ llm_request' = "none"
    /\ ~llm_failed'
    /\ tool_chunks = <<>>

\* C16: for a response without a tool call the accumulated content is
\* appended to the history as exactly one assistant message and exactly one
\* llm_complete event is published for the turn.
C16_OneMessageOneCompletion ==
    [][StreamEndsPlain
       => /\ added' = Append(added, NewMessage("assistant", "text"))
          /\ messages' = AddMessage(messages, NewMessage("assistant", "text"))
          /\ Len(Events(ready', "llm_complete"))
                = Len(Events(ready, "llm_complete")) + 1]_vars

(***************************************************************************)
(* Properties of the message history (SpecHistory).                        *)
(***************************************************************************)
\* C13: after any sequence of add_message calls with the limit enabled the
\* history holds at most max_messages non-system messages, and they are
\* exactly the most recently added non-system messages in their original
\* order; with max_messages = 2, a system prompt and 5 later messages the
\* history has length 3.
C13_HistoryKeepsMostRecent ==
    /\ Len(NonSystemMessages(messages)) <= max_messages
    /\ NonSystemMessages(messages) = LastOf(NonSystemMessages(added), max_messages)
    /\ (/\ max_messages = 2
        /\ SystemMessages(messages) = <<SystemPrompt>>
        /\ Len(NonSystemMessages(added)) = 5)
       => Len(messages) = 3

C13_Witness ==
    /\ SystemMessages(messages) = <<SystemPrompt>>
    /\ Len(added) = 5
    /\ Len(NonSystemMessages(added)) = 5
    /\ Len(messages) = max_messages + 1
    /\ messages[Len(messages)].id = 5

\* C14: trim_messages never removes a system message, and after any sequence
\* of add_message calls the system messages form a single leading run of the
\* history (the system message is at index 0).
C14_SystemMessagesLead ==
    /\ \A k \in 1..Len(added) :
          added[k].role = "system" => \E i \in 1..Len(messages) : messages[i] = added[k]
    /\ \A i, j \in 1..Len(messages) :
          (i < j /\ messages[j].role = "system") => messages[i].role = "system"


(***************************************************************************)
(* Properties of the proactive chat (SpecAuto).                            *)
(***************************************************************************)
\* the step is _on_auto_chat_request handing the proactive prompt on
AutoChatForwards ==
    /\ HeadIs("handle", "auto_chat_request")
    /\ Len(Events(ready', "prompt_sending")) > Len(Events(ready, "prompt_sending"))

\* a stage of the pipeline other than the idle check is at work
OtherStageActive ==
    \/ is_recording
    \/ UtteranceInFlight
    \/ llm_request # "none"
    \/ Events(ready, "prompt_sending") # <<>>
    \/ IsActive

\* C17: a proactive (auto-chat) prompt is forwarded to the LLM only when no
\* other pipeline stage is active: never while the user is speaking, an
\* utterance is being transcribed, an LLM request (user-initiated or
\* proactive) is in flight, or TTS is active.
C17_AutoChatOnlyWhenIdle ==
    [][AutoChatForwards => ~OtherStageActive]_vars


\* the user has spoken and stopped, the user_speaking event of the stop is
\* handled and no stage is at work
StoppedSpeakingAtRest ==
    /\ auto_chat
    /\ Quiescent
    /\ ~is_recording
    /\ last_finish.outcome # "none"

\* C18: suppression of proactive chat by user speech is temporary: once the
\* user has stopped speaking (a user_speaking event with is_speaking false
\* has been published) and the idle threshold elapses with no other stage
\* active, an auto_chat_request is eventually published again.  Stated for
\* each number k of requests published so far: the next one follows unless
\* the user speaks again.
C18_AutoChatResumesAfterSpeech ==
    \A k \in 0..(MaxAuto - 1) :
        (StoppedSpeakingAtRest /\ n_auto = k) ~> (n_auto > k \/ is_recording)


(***************************************************************************)
(* Properties of the event bus (SpecBus).                                  *)
(***************************************************************************)
\* the step is a subscribe or a publish call made after shutdown was called
CallAfterShutdown ==
    /\ is_shutting_down
    /\ BusPublish \/ \E callback \in Callbacks : BusSubscribe(callback)

\* C19: after shutdown() has been called on the EventBus, every later
\* subscribe() and publish() call is rejected with an explicit error (the
\* Closed error) reported to the caller; the call is never silently ignored,
\* the handler is not registered and no handler runs.
C19_ClosedBusRejectsCalls ==
    [][CallAfterShutdown
       => /\ last_call'.raised
          /\ subscribers' = subscribers
          /\ handler_tasks' = handler_tasks]_vars

AllHandlersDone == \A i \in 1..Len(handler_tasks) : Done(i)

\* C20: when EventBus.shutdown() returns, every handler task that was
\* started through the bus (by publish or by publish_sync) and was still in
\* flight has been cancelled and has finished, and only after that the
\* subscription registry has been emptied.
C20_ShutdownEndsHandlerTasks ==
    [][/\ shutdown_task' = "returned" => (AllHandlersDone' /\ subscribers' = <<>>)
       /\ (is_shutting_down' /\ Len(subscribers') < Len(subscribers))
              => AllHandlersDone]_vars


\* the step is a publish or a publish_sync call on a bus that is not closed
PublishesOnOpenBus ==
    /\ ~is_shutting_down
    /\ BusPublish \/ BusPublishSync

\* what the step adds to handler_tasks
NewEntries == SubSeq(handler_tasks', Len(handler_tasks) + 1, Len(handler_tasks'))

\* C21: if one handler raises an exception while handling an event, every
\* other handler subscribed to that event is still invoked and the
\* publisher's call returns normally without the exception; this holds for
\* publish and for publish_sync.  A handler is invoked inline or gets its
\* task.
C21_HandlerExceptionIsContained ==
    [][PublishesOnOpenBus
       => /\ ~last_call'.raised
          /\ Len(NewEntries) = Len(subscribers)
          /\ \A i \in 1..Len(subscribers) : NewEntries[i].callback = subscribers[i]]_vars


\* the step is a publish or a publish_sync call made after shutdown has set
\* is_shutting_down
PublishesOnClosedBus ==
    /\ is_shutting_down
    /\ BusPublish \/ BusPublishSync

\* C22: an event published after shutdown of the bus has begun is never
\* delivered: none of its subscribers' handlers is executed, for any
\* interleaving of the publish call with the shutdown call.  Shutdown has
\* begun when it has set is_shutting_down: a publish or publish_sync call
\* made from then on makes no task and calls nothing inline; and a task
\* publish made just before, not yet started, is cancelled and never calls
\* its handler.
C22_NoDeliveryAfterShutdownBegan ==
    [][/\ PublishesOnClosedBus => handler_tasks' = handler_tasks
       /\ is_shutting_down =>
              \A i \in 1..Len(handler_tasks) :
                  handler_tasks[i].via = "publish"
                      => handler_tasks'[i].invocations = handler_tasks[i].invocations]_vars

\* publish was called while shutdown waits at its gather, with a handler
\* still subscribed
C22_Witness ==
    /\ shutdown_task = "gathering"
    /\ subscribers # <<>>
    /\ last_call.op = "publish"


C24_UnsubscribedHandlerIsGone ==
    [][\A callback \in Callbacks :
           BusUnsubscribe(callback) => ~InList(subscribers', callback)]_vars


\* the tasks publish made that have not ended
PublishTasksInFlight ==
    {i \in 1..Len(handler_tasks) : handler_tasks[i].via = "publish" /\ ~Done(i)}

\* C25: publish() returns to its caller without waiting for any handler to
\* finish: a handler that runs arbitrarily long (or never finishes) does not
\* delay the return of publish, and every task publish creates is tracked in
\* the bus's task set until it completes and is removed from it on
\* completion.  publish returns with its tasks not yet started, whatever the
\* tasks made before are doing.
C25_PublishReturnsAtOnceTasksTracked ==
    [][/\ (~is_shutting_down /\ BusPublish)
            => \A i \in 1..Len(NewEntries) : NewEntries[i].state = "created"
       /\ tasks' = PublishTasksInFlight']_vars

\* publish has returned and the handler of its first task still runs; a
\* later task has ended and left the task set
C25_Witness ==
    /\ Len(handler_tasks) = 2
    /\ handler_tasks[1].via = "publish"
    /\ handler_tasks[1].state = "running"
    /\ handler_tasks[2].via = "publish"
    /\ handler_tasks[2].state = "done"
    /\ tasks = {1}


\* C26: calling EventBus.shutdown() a second time (after, or concurrently
\* with, the first call) raises no error and leaves the bus in the same final
\* state as a single call: closed, with no in-flight handler tasks and no
\* subscriptions once the call returns.
C26_SecondShutdownSameFinalState ==
    [][BusShutdownAgain
       => /\ ~last_call'.raised
          /\ is_shutting_down'
          /\ AllHandlersDone'
          /\ subscribers' = <<>>]_vars

\* the step is a publish or a publish_sync call on an event type that has no
\* subscribers
PublishesToNobody ==
    /\ ~is_shutting_down
    /\ subscribers = <<>>
    /\ BusPublish \/ BusPublishSync

\* C27: publishing an event type that has no subscribers returns without
\* error, starts no task, invokes no handler, and leaves the bus's
\* subscription registry and tracked-task set unchanged.
C27_PublishToNobodyChangesNothing ==
    [][PublishesToNobody
       => /\ ~last_call'.raised
          /\ handler_tasks' = handler_tasks
          /\ tasks' = tasks
          /\ subscribers' = subscribers
          /\ in_subscribers' = in_subscribers]_vars


(***************************************************************************)
(* Properties of the streamed reply and its segments (SpecTool, SpecSeg).  *)
(***************************************************************************)
\* C28: within one LLM response stream a response is either prose or a tool
\* invocation, never both: if any tool-call fragment is accumulated for the
\* stream, no content token of that stream is forwarded to the speech
\* pipeline, whether the content arrives before or after the fragment.
\* streamed holds the content tokens of the stream handed to the output
\* callback.
C28_ProseOrToolCall ==
    [][/\ Len(tool_chunks') > Len(tool_chunks) => streamed = <<>>
       /\ (tool_round = 0 /\ tool_chunks # <<>> /\ llm_request = "streaming")
              => streamed' = streamed]_vars


\* the step is _on_llm_streaming handling text of a reply that still streams
\* and handing a segment to the TTS
CutsWhileStreaming ==
    /\ HeadIs("handle", "llm_streaming")
    /\ ~Head(ready).data
    /\ Len(enqueued') > Len(enqueued)

\* C29: while a response is still streaming, a segment is cut and sent to TTS
\* after a punctuation character only when at least one further character
\* has already been received after that punctuation; text whose last
\* received character is punctuation is held back until more text or the
\* final flush arrives.  The characters received after the last cut are the
\* text kept in current_full_text.
C29_CutNeedsFollowingCharacter ==
    [][CutsWhileStreaming => current_full_text' # <<>>]_vars

\* C30: when the final signal of an LLM stream is handled, all text received
\* in the turn and not yet sent to TTS (the context processor's buffer and
\* the held-back tail in current_full_text) is enqueued as a terminal segment
\* whether or not it ends in punctuation, and nothing of the turn remains
\* buffered afterwards or leaks into the next turn.  Stated for the
\* characters that are not whitespace.
C30_FinalFlushLeavesNothing ==
    ReplyDelivered => (buffer = <<>> /\ NonBlank(current_full_text) = <<>>)


(***************************************************************************)
(* Properties of a turn that ends in an error (SpecTool).                  *)
(***************************************************************************)
\* the step ends the request of the turn in an HTTP or a network error
RequestEndsInError ==
    /\ llm_request \in {"posting", "streaming"}
    /\ ~llm_failed
    /\ llm_failed'

\* the step ends the stream with tool-call arguments json.loads rejects
ToolArgsRejected ==
    /\ llm_request = "streaming"
    /\ usetool /\ tool_args # <<>>
    /\ ~JsonLoads(ToolArgsStr(tool_args)).ok
    /\ llm_request' = "none"
    /\ ~llm_failed'

\* C31: whenever a turn ends in a turn-fatal error (LLM HTTP or network
\* error, or tool-call arguments that are not valid JSON), the turn is
\* abandoned and an error event is published on the bus for that turn: the
\* step that ends the request adds an llm_error event to the handler tasks.
C31_FatalErrorPublishesErrorEvent ==
    [][(RequestEndsInError \/ ToolArgsRejected)
       => Len(Events(ready', "llm_error")) = Len(Events(ready, "llm_error")) + 1]_vars


(***************************************************************************)
(* Properties of the lock and the recording (SpecASR).                     *)
(***************************************************************************)
\* C32: the recording sub-state is idle whenever the ASR is locked:
\* is_recording is never true while asr_locked is true (including when the
\* lock is set by the turn coordinator on tts_start or speech_recognized), so
\* an utterance finalized after an unlock never contains audio captured
\* while the lock was held.
C32_NotRecordingWhileLocked == asr_locked => ~is_recording


(***************************************************************************)
(* Properties of the playback (SpecPlay).                                  *)
(***************************************************************************)
\* the segments on their way to the loudspeaker, the next to play first:
\* the audio synthesized, the segment being synthesized, the text waiting
Pipeline ==
    tts_audio_data_queue
        \o (IF processing_task = "synth" THEN <<segment>> ELSE <<>>)
        \o text_segment_queue

\* a is b with some elements left out
RECURSIVE IsSubsequence(_, _)
IsSubsequence(a, b) ==
    IF a = <<>> THEN TRUE
    ELSE IF b = <<>> THEN FALSE
    ELSE IF Head(a) = Head(b) THEN IsSubsequence(Tail(a), Tail(b))
    ELSE IsSubsequence(a, Tail(b))

\* the segments the step hands to add_streaming_text
NewlyEnqueued ==
    IF Len(enqueued') > Len(enqueued)
    THEN SubSeq(enqueued', Len(enqueued) + 1, Len(enqueued'))
    ELSE <<>>

\* the step is _play_audio starting to play a segment
PlaybackStarts == playback_task = "waiting" /\ playback_task' = "playing"

\* C33: synthesized segments are played strictly in the order in which their
\* text was enqueued and one at a time: at most one segment is playing at any
\* moment and a segment's playback finishes before the next segment's
\* playback starts.  No step reorders the segments on their way to the
\* loudspeaker (a step drops segments or adds the newly enqueued ones at the
\* end), the segment whose playback starts is the oldest of them, and it
\* starts with no playback and no text reveal of an earlier segment left.
C33_PlayedInOrderOneAtATime ==
    [][/\ LET kept == Len(Pipeline') - Len(NewlyEnqueued)
          IN  /\ kept >= 0
              /\ SubSeq(Pipeline', kept + 1, Len(Pipeline')) = NewlyEnqueued
              /\ IsSubsequence(SubSeq(Pipeline', 1, kept), Pipeline)
       /\ PlaybackStarts => /\ ~is_playing_audio
                            /\ ~HasAnimationTask
                            /\ Pipeline' = Tail(Pipeline)]_vars

\* the last of two or more segments of a reply plays, all of them
\* synthesized, and two different segments wait or play at some point
C33_Witness ==
    /\ playback_task = "playing"
    /\ Len(enqueued) >= 2
    /\ enqueued[1] # enqueued[2]
    /\ Pipeline = <<>>
    /\ ~tts_failed


(***************************************************************************)
(* Properties of TTSClient.reset (SpecTTS).                                *)
(***************************************************************************)
\* the step is a call of reset by itself: it empties the queues and leaves
\* the tasks where they are
ResetReturns ==
    /\ text_segment_queue # <<>> \/ tts_audio_data_queue # <<>>
    /\ text_segment_queue' = <<>>
    /\ tts_audio_data_queue' = <<>>
    /\ UNCHANGED <<processing_task, playback_task, text_animation_task, ready>>

\* C34: after TTSClient.reset() returns, the pending-text queue and the
\* pending-audio queue are both empty and any in-flight text-reveal
\* (animation) task has been cancelled, so no segment of the discarded turn
\* is synthesized, played or revealed afterwards: when reset returns no
\* reveal task is left to run and no segment is left in synthesis.
C34_ResetDiscardsTheTurn ==
    [][ResetReturns => /\ text_animation_task' \notin {"created", "running"}
                       /\ processing_task' # "synth"]_vars


(***************************************************************************)
(* Properties of ASRClient.stop (SpecStop).                                *)
(***************************************************************************)
\* C35: when ASRClient.stop() or TTSClient.stop() returns, every task the
\* component created (audio processor, websocket listener, silence-timeout
\* or finalize task, text-processing, playback, text-reveal and mouth-sync
\* tasks) has been cancelled and has finished; none is still pending or able
\* to use the closed connection or session.  For ASRClient: once stop has
\* returned no silence timeout task is left, neither referenced by the
\* field nor cancelled and still to be resumed.
C35_StopLeavesNoTask ==
    asr_stop = "returned" => (silence_timeout_task = "none" /\ running_task = "none")


(***************************************************************************)
(* Properties of the shutdown started by an event (SpecAppShutdown).       *)
(***************************************************************************)
\* every task of the handler of app_shutdown has ended
AppShutdownHandlersEnded ==
    \A i \in 1..Len(handler_tasks) :
        handler_tasks[i].callback = "on_app_shutdown" => Done(i)

\* C36: when an app_shutdown event is published, the shutdown sequence
\* started by its handler runs to completion: all components are stopped,
\* the bus is closed and its subscriptions are cleared, even though that
\* sequence executes inside a handler task of the very bus it shuts down.
\* Once the handler's task has ended, the shutdown it made has cleared the
\* subscriptions.
C36_AppShutdownRunsToCompletion ==
    (shutdown_task = "in_handler" /\ AppShutdownHandlersEnded)
        => (subscribers = <<>> /\ ~in_subscribers)


(***************************************************************************)
(* Properties of the start (SpecStartup).                                  *)
(***************************************************************************)
\* C37: after startup completes, the assistant reaches the LISTENING state
\* with asr_locked false (the lock's initial value is true), for every
\* configuration of enabled modules, including TTS disabled and the case
\* where the intro speech fails to synthesize.
C37_StartReachesListeningUnlocked == <>(is_running /\ ~asr_locked)


(***************************************************************************)
(* Properties of the microphone queue (SpecMic).                           *)
(***************************************************************************)
\* the step ends a callback that found the ASR unlocked
CallbackEnds == cb_pc # "idle" /\ cb_pc' = "idle"

\* C38: the microphone callback never blocks and the audio queue never holds
\* more than its capacity (100 blocks): when the queue is full exactly one
\* oldest block is removed and the new block is enqueued, so the queue always
\* holds the most recent blocks in arrival order, under any interleaving
\* with the consumer task.  A callback that found the ASR unlocked ends with
\* its block in the queue.
C38_CallbackEnqueuesItsBlock ==
    [][/\ audio_data_queue' <= audio_queue_maxsize
       /\ CallbackEnds => audio_data_queue' >= 1]_vars


(***************************************************************************)
(* Properties of the VAD connection (SpecConnection).                      *)
(***************************************************************************)
\* C39: after a loss of the VAD connection, the number of reconnection
\* attempts is bounded by max_retries (5) with a pause between attempts; on
\* success the retry counter is reset and streaming resumes, and once the
\* bound is exhausted no further attempts are made.  The retry counter never
\* passes max_retries, and after setup_websocket has given up reconnecting a
\* lost connection no step calls websockets.connect again.
C39_NoAttemptAfterTheBound ==
    [][/\ retry_count' <= max_retries
       /\ (exhausted /\ websocket # 0) => attempts' = attempts]_vars

\* C40: at most one VAD websocket connection is open at any time, even when
\* the audio processor task and the websocket listener both detect the
\* connection loss and call setup_websocket concurrently; no opened
\* connection is left unreferenced and unclosed.  Every open connection is the
\* one self.websocket refers to.
C40_OnlyTheReferencedConnectionIsOpen == connections \subseteq {websocket}

====
